---- MODULE Spec2Model ----
(***************************************************************************)
(* A model of aichat's streaming renderer: the cancellation token          *)
(* (utils/abort_signal.rs), the ReplyHandler and render_stream             *)
(* (render/mod.rs), the render loops (render/stream.rs), the producer      *)
(* side of Client::send_message_streaming (client/common.rs) and the       *)
(* Markdown line classifier (render/markdown.rs).                          *)
(*                                                                         *)
(* Text is a sequence of characters (BQ is the backquote).  The            *)
(* specifications that share the module:                                   *)
(*   Spec / FairSpec  one render_stream call: the caller, the producer     *)
(*                    and the render thread interleaved step by step;      *)
(*   SpecChunk        one text delivered to the redraw engine in every     *)
(*                    possible batching, against MarkdownRender::render;   *)
(*   SpecLine         MarkdownRender::render over one text, one            *)
(*                    render_line_mut call after another;                  *)
(*   SpecToken        two threads calling the methods of one shared        *)
(*                    AbortSignal, one step per atomic load or store.      *)
(*   SpecRepl         the loop of Repl::run (repl/mod.rs) with the         *)
(*                    responses it starts, on the token they share;        *)
(*   SpecBlend        blend_fg_color applied to one style.                 *)
(***************************************************************************)
EXTENDS Integers, Sequences, FiniteSets, TLC

VARIABLES
    \* ---- AbortSignalInner
    ctrlc, ctrld,
    \* ---- the calls threads make on one shared AbortSignal (SpecToken)
    tpc,             \* per thread: idle, or between the two atomics of a call
    tok_log,         \* history: the calls completed so far, in order
    tok_raced,       \* history, per thread: set_ctrlc ran between its reset's stores
    \* ---- crossbeam channel (tx, rx) of ReplyEvent
    chan, rx_alive,
    \* ---- ReplyHandler
    handler_buffer,
    passed,          \* history: every fragment given to text(), concatenated
    text_calls,      \* history: number of text() calls made
    last_call,       \* history: the last text()/done() call and what it returned
    done_sent,       \* history: a Done event was enqueued
    \* ---- Client::send_message_streaming
    ppc, pret, client_failed,
    \* ---- the render thread
    rpc, rres, is_terminal, batch, consumed,
    io_failed,       \* history: a terminal call of the render thread failed
    spinner, cursor_hidden,
    raw_mode,        \* the terminal is in raw mode
    inner_res,       \* history: what markdown_stream_inner returned
    cancel_in_stream, \* history: a cancel key arrived while the producer was streaming
    \* ---- render_stream
    mpc, result, wg_dropped,
    \* ---- MarkdownRender and the redraw engine fed one text (SpecChunk)
    options,          \* RenderOptions: theme present, wrap width (0: None), wrap_code
    prev_line_type, code_syntax,
    buffer,           \* the partial buffer of markdown_stream_inner
    full, rest,       \* the whole text, and the part not yet delivered
    printed,          \* what print_block committed so far
    shown,            \* the last displayed rendering of the buffer
    many,             \* history: the text came in more than one batch
    columns,          \* terminal::size()?.0, read once before the loop
    term_rows,        \* the height of the terminal: cursor rows are below it
    buffer_rows,      \* the rows the displayed buffer takes
    placed,           \* the reposition of the Text arm under way: what it read and did
    done,             \* the Done arm was taken: the loop is left
    committed,        \* history: the text handed to render by the Text arms
    tick_pc,          \* the loop's place in a turn: before its work or at the poll
    elapsed,          \* last_tick.elapsed(), in milliseconds
    polled,           \* history: the last timeout computed, and from what
    key,              \* the event read by this turn's poll, "none" outside it
    \* ---- MarkdownRender::render over one text, line by line (SpecLine)
    lines_left,       \* the lines of text.split('\n') still to be mapped
    line_log,         \* history: every render_line_mut call made so far
    joined,           \* the rendered lines so far, joined with "\n"
    \* ---- Repl::run (SpecRepl)
    repl_pc,          \* the REPL's place: loop top, read_line, handle, in render_stream
    already_ctrlc,    \* the local of Repl::run
    submitted,        \* the kind of the submitted line being handled
    lines_read,       \* history: read_line calls made so far
    asked,            \* history: the token's flags at the entry of each render_stream
    presses,          \* history: Ctrl+C was pressed at a prompt / during a response
    \* ---- blend_fg_color applied to one style (SpecBlend)
    foreground, background,   \* style.foreground, style.background
    blended           \* what blend_fg_color returned, and whether it saturated

stream_vars == << ctrlc, ctrld, chan, rx_alive, handler_buffer, passed, text_calls,
           last_call, done_sent, ppc, pret, client_failed, rpc, rres, io_failed,
           is_terminal, batch, consumed, spinner, cursor_hidden,
           raw_mode, inner_res, cancel_in_stream, mpc, result, wg_dropped >>

draw_vars == << options, prev_line_type, code_syntax, buffer, full, rest,
                 printed, shown, many, columns, term_rows, buffer_rows,
                 placed, done, committed, tick_pc, elapsed, polled,
                 lines_left, line_log, joined >>

chunk_vars == << draw_vars, key >>

repl_vars == << repl_pc, already_ctrlc, submitted, lines_read, asked,
               presses >>

blend_vars == << foreground, background, blended >>

\* what the stream and redraw actions leave alone besides their own
token_vars == << tpc, tok_log, tok_raced, repl_vars, blend_vars >>

tick_vars == << tick_pc, elapsed, polled >>

vars == << stream_vars, chunk_vars, token_vars >>

\* ------------------------------------------------------------------ bounds
\* the longest time, in milliseconds, the work of one turn takes
MaxLag == 60
\* text() calls the producer makes in one response
MaxText == 3
\* spinner.index is counted up to SpinCap; SpinCap stands for every larger index
SpinCap == 2

\* calls made on the token in one behaviour of SpecToken
MaxCalls == 3
\* read_line calls made in one behaviour of SpecRepl
MaxLines == 3
\* values a colour channel is drawn from in SpecBlend, spread over 0..255
MaxShades == 3

\* pieces a text of SpecLine is made of
MaxPieces == 5
\* the wrap width, when wrapping is on
WrapCols == 2
\* the widest terminal, in columns
TermCols == 2
\* the tallest terminal, in rows
MaxRows == 2
\* pieces a text of SpecChunk is made of
MaxChunkPieces == 4
\* pieces a text of SpecDraw is made of
MaxDrawPieces == 3

\* the fragments a provider hands to text(): empty, or one character
Fragments == { <<>>, <<"a">>, <<"b">> }

\* ------------------------------------------------------ cancellation token
aborted_ctrlc == ctrlc
aborted_ctrld == ctrld
aborted == IF aborted_ctrlc THEN TRUE ELSE IF aborted_ctrld THEN TRUE ELSE FALSE

\* The token is an Arc shared by threads; every method takes &self and is
\* made of SeqCst loads and stores, one step each.
Threads == { "repl", "render" }

\* a completed call: who made it, which method, and what a query returned
\* (value is FALSE for the methods that return nothing)
Call(th, op, value) == [thread |-> th, op |-> op, value |-> value]

TokenUnchanged ==
    UNCHANGED << chan, rx_alive, handler_buffer, passed, text_calls,
                 last_call, done_sent, ppc, pret, client_failed, rpc, rres,
                 io_failed, is_terminal, batch, consumed, spinner,
                 cursor_hidden, raw_mode, inner_res, cancel_in_stream, mpc,
                 result, wg_dropped, chunk_vars, repl_vars, blend_vars >>

\* a thread may begin a call
CanCall(th) == tpc[th] = "idle" /\ Len(tok_log) < MaxCalls

\* a faulty set_ctrlc: it stores into both flags
set_ctrlc_Both(th) ==
    /\ CanCall(th)
    /\ ctrlc' = TRUE /\ ctrld' = TRUE
    /\ tok_log' = Append(tok_log, Call(th, "set_ctrlc", FALSE))
    /\ tok_raced' = [u \in Threads |->
                       IF tpc[u] = "reset_ctrld" THEN TRUE ELSE tok_raced[u]]
    /\ UNCHANGED tpc
    /\ TokenUnchanged

\* set_ctrlc
set_ctrlc(th) ==
    /\ CanCall(th)
    /\ ctrlc' = TRUE
    /\ tok_log' = Append(tok_log, Call(th, "set_ctrlc", FALSE))
    /\ tok_raced' = [u \in Threads |->
                       IF tpc[u] = "reset_ctrld" THEN TRUE ELSE tok_raced[u]]
    /\ UNCHANGED << ctrld, tpc >>
    /\ TokenUnchanged

\* set_ctrld
set_ctrld(th) ==
    /\ CanCall(th)
    /\ ctrld' = TRUE
    /\ tok_log' = Append(tok_log, Call(th, "set_ctrld", FALSE))
    /\ UNCHANGED << ctrlc, tpc, tok_raced >>
    /\ TokenUnchanged

\* reset, its first store: ctrlc
reset_ctrlc(th) ==
    /\ CanCall(th)
    /\ ctrlc' = FALSE
    /\ tpc' = [tpc EXCEPT ![th] = "reset_ctrld"]
    /\ tok_raced' = [tok_raced EXCEPT ![th] = FALSE]
    /\ UNCHANGED << ctrld, tok_log >>
    /\ TokenUnchanged

\* reset, its second store: ctrld; the call returns
reset_ctrld(th) ==
    /\ tpc[th] = "reset_ctrld"
    /\ ctrld' = FALSE
    /\ tpc' = [tpc EXCEPT ![th] = "idle"]
    /\ tok_log' = Append(tok_log, Call(th, "reset", FALSE))
    /\ UNCHANGED << ctrlc, tok_raced >>
    /\ TokenUnchanged

\* a faulty aborted_ctrlc: swap(false) in place of load
CallAbortedCtrlc_Swap(th) ==
    /\ CanCall(th)
    /\ ctrlc' = FALSE
    /\ tok_log' = Append(tok_log, Call(th, "aborted_ctrlc", aborted_ctrlc))
    /\ UNCHANGED << ctrld, tpc, tok_raced >>
    /\ TokenUnchanged

\* a call of aborted_ctrlc
CallAbortedCtrlc(th) ==
    /\ CanCall(th)
    /\ tok_log' = Append(tok_log, Call(th, "aborted_ctrlc", aborted_ctrlc))
    /\ UNCHANGED << ctrlc, ctrld, tpc, tok_raced >>
    /\ TokenUnchanged

\* a call of aborted_ctrld
CallAbortedCtrld(th) ==
    /\ CanCall(th)
    /\ tok_log' = Append(tok_log, Call(th, "aborted_ctrld", aborted_ctrld))
    /\ UNCHANGED << ctrlc, ctrld, tpc, tok_raced >>
    /\ TokenUnchanged

\* a call of aborted, its first load: true returns at once
CallAborted(th) ==
    /\ CanCall(th)
    /\ IF aborted_ctrlc
         THEN /\ tok_log' = Append(tok_log, Call(th, "aborted", TRUE))
              /\ UNCHANGED tpc
         ELSE /\ tpc' = [tpc EXCEPT ![th] = "aborted_ctrld"]
              /\ UNCHANGED tok_log
    /\ UNCHANGED << ctrlc, ctrld, tok_raced >>
    /\ TokenUnchanged

\* a call of aborted, its second load
CallAbortedSecond(th) ==
    /\ tpc[th] = "aborted_ctrld"
    /\ tpc' = [tpc EXCEPT ![th] = "idle"]
    /\ tok_log' = Append(tok_log, Call(th, "aborted", aborted_ctrld))
    /\ UNCHANGED << ctrlc, ctrld, tok_raced >>
    /\ TokenUnchanged

\* ---------------------------------------------------------------- Repl::run
\* Between two responses the REPL thread is the only holder of the token that
\* runs: render_stream returns after wg.wait(), when the render thread has
\* ended, and block_on has returned with the producer and watch_abort.
ReplUnchanged ==
    UNCHANGED << chan, rx_alive, handler_buffer, passed, text_calls,
                 last_call, done_sent, ppc, pret, client_failed, rpc, rres,
                 io_failed, is_terminal, batch, consumed, spinner,
                 cursor_hidden, raw_mode, inner_res, cancel_in_stream, mpc,
                 result, wg_dropped, chunk_vars, tpc, tok_log, tok_raced,
                 blend_vars >>

\* what read_line returns: a submitted line (one that reaches render_stream
\* through ask, one that does not, or .exit), Ctrl+C, Ctrl+D, anything else
Signals == { "ask", "cmd", "quit", "CtrlC", "CtrlD", "other" }

\* the top of the loop: break on Ctrl+D, remember a Ctrl+C
ReplTop ==
    /\ repl_pc = "top"
    /\ IF aborted_ctrld
         THEN repl_pc' = "exit" /\ UNCHANGED already_ctrlc
         ELSE /\ repl_pc' = "read"
              /\ already_ctrlc' = (already_ctrlc \/ aborted_ctrlc)
    /\ UNCHANGED << ctrlc, ctrld, submitted, lines_read, asked, presses >>
    /\ ReplUnchanged

\* a faulty read: a submitted line is handled without reset()
ReplReadLine_NoReset ==
    /\ repl_pc = "read" /\ lines_read < MaxLines
    /\ lines_read' = lines_read + 1
    /\ \E sig \in Signals :
         CASE sig \in {"ask", "cmd", "quit"} ->
                /\ already_ctrlc' = FALSE
                /\ submitted' = sig /\ repl_pc' = "handle"
                /\ UNCHANGED << ctrlc, ctrld, presses >>
           [] sig = "CtrlC" ->
                /\ ctrlc' = TRUE
                /\ repl_pc' = IF already_ctrlc THEN "exit" ELSE "top"
                /\ already_ctrlc' = TRUE
                /\ presses' = [presses EXCEPT !.prompt = TRUE]
                /\ UNCHANGED << ctrld, submitted >>
           [] sig = "CtrlD" ->
                /\ ctrld' = TRUE /\ repl_pc' = "exit"
                /\ UNCHANGED << ctrlc, already_ctrlc, submitted, presses >>
           [] OTHER ->
                /\ repl_pc' = "top"
                /\ UNCHANGED << ctrlc, ctrld, already_ctrlc, submitted, presses >>
    /\ UNCHANGED asked
    /\ ReplUnchanged

\* self.editor.read_line(&self.prompt) and the arms of `match sig` up to the
\* call of handle: Success clears already_ctrlc and resets the token
ReplReadLine ==
    /\ repl_pc = "read" /\ lines_read < MaxLines
    /\ lines_read' = lines_read + 1
    /\ \E sig \in Signals :
         CASE sig \in {"ask", "cmd", "quit"} ->
                /\ already_ctrlc' = FALSE
                /\ ctrlc' = FALSE /\ ctrld' = FALSE
                /\ submitted' = sig /\ repl_pc' = "handle"
                /\ UNCHANGED presses
           [] sig = "CtrlC" ->
                /\ ctrlc' = TRUE
                /\ repl_pc' = IF already_ctrlc THEN "exit" ELSE "top"
                /\ already_ctrlc' = TRUE
                /\ presses' = [presses EXCEPT !.prompt = TRUE]
                /\ UNCHANGED << ctrld, submitted >>
           [] sig = "CtrlD" ->
                /\ ctrld' = TRUE /\ repl_pc' = "exit"
                /\ UNCHANGED << ctrlc, already_ctrlc, submitted, presses >>
           [] OTHER ->
                /\ repl_pc' = "top"
                /\ UNCHANGED << ctrlc, ctrld, already_ctrlc, submitted, presses >>
    /\ UNCHANGED asked
    /\ ReplUnchanged

\* self.handle(&line): .exit leaves the loop, a command or an ask that
\* returns before render_stream goes back to the top (an Err is printed),
\* and ask enters render_stream with a clone of the token
ReplHandle ==
    /\ repl_pc = "handle"
    /\ CASE submitted = "quit" -> repl_pc' = "exit" /\ UNCHANGED asked
         [] submitted = "cmd" -> repl_pc' = "top" /\ UNCHANGED asked
         [] OTHER ->
              /\ repl_pc' = "stream"
              /\ asked' = Append(asked, [ctrlc |-> ctrlc, ctrld |-> ctrld])
    /\ submitted' = "none"
    /\ UNCHANGED << ctrlc, ctrld, already_ctrlc, lines_read, presses >>
    /\ ReplUnchanged

\* during the response the render loop reads Ctrl+C or Ctrl+D, sets the flag
\* and leaves its loop (stream.rs:160-167), so once in a response
ReplStreamKey ==
    /\ repl_pc = "stream"
    /\ \/ ctrlc' = TRUE /\ UNCHANGED ctrld
          /\ presses' = [presses EXCEPT !.stream = TRUE]
       \/ ctrld' = TRUE /\ UNCHANGED << ctrlc, presses >>
    /\ repl_pc' = "stream_end"
    /\ UNCHANGED << already_ctrlc, submitted, lines_read, asked >>
    /\ ReplUnchanged

\* render_stream returns, Ok or Err; handle returns to the loop
ReplStreamReturn ==
    /\ repl_pc \in {"stream", "stream_end"}
    /\ repl_pc' = "top"
    /\ UNCHANGED << ctrlc, ctrld, already_ctrlc, submitted, lines_read, asked,
                    presses >>
    /\ ReplUnchanged

\* after the loop: self.handle(".exit session")?, which asks nothing
ReplExit ==
    /\ repl_pc = "exit"
    /\ repl_pc' = "done"
    /\ UNCHANGED << ctrlc, ctrld, already_ctrlc, submitted, lines_read, asked,
                    presses >>
    /\ ReplUnchanged

\* ----------------------------------------------------------- blend_fg_color
\* u8::MAX
U8Max == 255
\* a SyntectColor
Color(r, g, b, a) == [r |-> r, g |-> g, b |-> b, a |-> a]

\* the channel values of SpecBlend: MaxShades values from 0 to u8::MAX
Shades == { (i * U8Max) \div (MaxShades - 1) : i \in 0..(MaxShades - 1) }

\* a faulty channel: the background is not weighted
blend_channel_NoWeight(f, ratio, b) ==
    (f * ratio + b * 255) \div 255

\* (u32::from(fg.r) * ratio + u32::from(bg.r) * (255 - ratio)) / 255, in u32:
\* the operands come from u8 values, so ratio <= 255 and the sum is at most
\* 255 * 255 + 255 * 255, far below 2^32: nothing wraps
blend_channel(f, ratio, b) ==
    (f * ratio + b * (255 - ratio)) \div 255

\* u8::try_from(r).unwrap_or(u8::MAX)
u8_try_from(v) == IF v <= U8Max THEN v ELSE U8Max

\* the three u32 values computed for a foreground that is not opaque
blend_rgb(fg, bg) ==
    [r |-> blend_channel(fg.r, fg.a, bg.r),
     g |-> blend_channel(fg.g, fg.a, bg.g),
     b |-> blend_channel(fg.b, fg.a, bg.b)]

blend_fg_color(fg, bg) ==
    IF fg.a = 255 THEN fg
    ELSE LET c == blend_rgb(fg, bg) IN
         Color(u8_try_from(c.r), u8_try_from(c.g), u8_try_from(c.b), 255)

NotBlended == [some |-> FALSE, color |-> Color(0, 0, 0, 0), saturated |-> FALSE]

BlendUnchanged ==
    UNCHANGED << stream_vars, chunk_vars, tpc, tok_log, tok_raced, repl_vars >>

\* let fg = blend_fg_color(style.foreground, style.background)
BlendFg ==
    /\ ~blended.some
    /\ blended' =
         [some |-> TRUE,
          color |-> blend_fg_color(foreground, background),
          saturated |->
             /\ foreground.a # 255
             /\ \E v \in { blend_rgb(foreground, background)[ch] :
                              ch \in { "r", "g", "b" } } : v > U8Max]
    /\ UNCHANGED << foreground, background >>
    /\ BlendUnchanged

\* ------------------------------------------------------------ ReplyEvent
TextEvent(t) == [type |-> "Text", text |-> t]
DoneEvent == [type |-> "Done", text |-> <<>>]

\* ----------------------------------------------------------- ReplyHandler
\* Sender::send on the unbounded channel: fails only when the receiver is gone
SendOk == rx_alive

\* a faulty safe_ret: the send error is returned even when aborted
safe_ret_AlwaysRet(send_ok, is_aborted) == send_ok

\* a faulty safe_ret: every send error is swallowed
safe_ret_AlwaysOk(send_ok, is_aborted) == TRUE

\* ReplyHandler::safe_ret: TRUE is Ok(()), FALSE is the send error
safe_ret(send_ok, is_aborted) ==
    IF ~send_ok /\ is_aborted THEN TRUE ELSE send_ok

\* a faulty text(): the fragment is appended only after a successful send
text_PushOnSuccess(buf, fragment, send_ok) ==
    IF fragment = <<>> \/ ~send_ok THEN buf ELSE buf \o fragment

\* ReplyHandler::text, the buffer it leaves: push_str runs before the send
text_buffer(buf, fragment, send_ok) ==
    IF fragment = <<>> THEN buf ELSE buf \o fragment

\* a faulty text: no early return for an empty fragment
HandlerText_NoEmptyCheck(fragment) ==
    /\ handler_buffer' = handler_buffer \o fragment
    /\ passed' = passed \o fragment
    /\ text_calls' = text_calls + 1
    /\ chan' = IF SendOk THEN Append(chan, TextEvent(fragment)) ELSE chan
    /\ last_call' = [op |-> "text", empty |-> fragment = <<>>, sent |-> SendOk,
                     was_aborted |-> aborted, rx_dropped |-> ~rx_alive,
                     ok |-> safe_ret(SendOk, aborted)]

\* ReplyHandler::text as a whole; ok is the Result it returns
HandlerText(fragment) ==
    /\ handler_buffer' = text_buffer(handler_buffer, fragment, SendOk)
    /\ passed' = passed \o fragment
    /\ text_calls' = text_calls + 1
    /\ IF fragment = <<>>
         THEN /\ chan' = chan
              /\ last_call' = [op |-> "text", empty |-> TRUE, sent |-> FALSE,
                               was_aborted |-> aborted,
                               rx_dropped |-> ~rx_alive, ok |-> TRUE]
         ELSE /\ chan' = IF SendOk THEN Append(chan, TextEvent(fragment)) ELSE chan
              /\ last_call' = [op |-> "text", empty |-> FALSE, sent |-> SendOk,
                               was_aborted |-> aborted,
                               rx_dropped |-> ~rx_alive,
                               ok |-> safe_ret(SendOk, aborted)]

\* ReplyHandler::done
HandlerDone ==
    /\ chan' = IF SendOk THEN Append(chan, DoneEvent) ELSE chan
    /\ done_sent' = (done_sent \/ SendOk)
    /\ last_call' = [op |-> "done", empty |-> FALSE, sent |-> SendOk,
                     was_aborted |-> aborted, rx_dropped |-> ~rx_alive,
                     ok |-> safe_ret(SendOk, aborted)]

\* --------------------------------------------- Client::send_message_streaming
\* init_tokio_runtime()? fails: the call returns its error, no Done is sent
ProdRuntimeFail ==
    /\ mpc = "send" /\ ppc = "idle"
    /\ ppc' = "returned" /\ pret' = "err"
    /\ UNCHANGED << ctrlc, ctrld, chan, rx_alive, handler_buffer, passed,
                    text_calls, last_call, done_sent, client_failed, rpc, rres, io_failed,
                    is_terminal, batch, consumed, spinner, cursor_hidden,
                    raw_mode, inner_res,
                    cancel_in_stream, mpc, result, wg_dropped, chunk_vars, token_vars >>

\* block_on starts polling the select!
ProdBegin ==
    /\ mpc = "send" /\ ppc = "idle"
    /\ ppc' = "streaming"
    /\ UNCHANGED << ctrlc, ctrld, chan, rx_alive, handler_buffer, passed,
                    text_calls, last_call, done_sent, pret, client_failed, rpc,
                    rres, io_failed, is_terminal, batch, consumed, spinner, cursor_hidden,
                    raw_mode, inner_res,
                    cancel_in_stream, mpc, result, wg_dropped, chunk_vars, token_vars >>

\* the first select! branch, once the inner future has returned inner_ok:
\* handler.done()?; ret.with_context(..)
FirstBranch(inner_ok) ==
    /\ HandlerDone
    /\ ppc' = "returned"
    /\ pret' = IF ~last_call'.ok THEN "err" ELSE IF inner_ok THEN "ok" ELSE "err"

\* a provider's send_message_streaming_inner hands one fragment to
\* handler.text(..)?; a failed text() ends the inner future with that error
ProdText(fragment) ==
    /\ ppc = "streaming" /\ text_calls < MaxText
    /\ HandlerText(fragment)
    /\ ppc' = IF last_call'.ok THEN ppc ELSE "text_failed"
    /\ pret' = pret
    /\ UNCHANGED << ctrlc, ctrld, rx_alive, done_sent, client_failed, rpc, rres, io_failed,
                    is_terminal, batch, consumed, spinner, cursor_hidden,
                    raw_mode, inner_res,
                    cancel_in_stream, mpc, result, wg_dropped, chunk_vars, token_vars >>

\* the inner future ends with Ok(()): the stream is complete
ProdInnerOk ==
    /\ ppc = "streaming"
    /\ FirstBranch(TRUE)
    /\ UNCHANGED << ctrlc, ctrld, rx_alive, handler_buffer, passed, text_calls,
                    client_failed, rpc, rres, io_failed, is_terminal, batch, consumed,
                    spinner, cursor_hidden, raw_mode, inner_res,
                    cancel_in_stream, mpc, result,
                    wg_dropped, chunk_vars, token_vars >>

\* the inner future ends with the client's own error (build_client,
\* prepare_send_data, the request, a malformed chunk)
ProdClientFail ==
    /\ ppc = "streaming"
    /\ client_failed' = TRUE
    /\ FirstBranch(FALSE)
    /\ UNCHANGED << ctrlc, ctrld, rx_alive, handler_buffer, passed, text_calls,
                    rpc, rres, io_failed, is_terminal, batch, consumed, spinner,
                    cursor_hidden, raw_mode, inner_res,
                    cancel_in_stream, mpc, result, wg_dropped, chunk_vars, token_vars >>

\* the inner future has ended with the error of a failed text()
ProdTextFail ==
    /\ ppc = "text_failed"
    /\ FirstBranch(FALSE)
    /\ UNCHANGED << ctrlc, ctrld, rx_alive, handler_buffer, passed, text_calls,
                    client_failed, rpc, rres, io_failed, is_terminal, batch,
                    consumed, spinner, cursor_hidden, raw_mode, inner_res,
                    cancel_in_stream, mpc,
                    result, wg_dropped, chunk_vars, token_vars >>

\* a faulty watch_abort: it never completes
watch_abort_Never == FALSE

\* watch_abort: the future completes once it polls the token aborted
watch_abort == aborted

\* the second select! branch: handler.done()?; Ok(())
ProdWatchAbort ==
    /\ ppc = "streaming"
    /\ watch_abort
    /\ HandlerDone
    /\ ppc' = "returned"
    /\ pret' = IF last_call'.ok THEN "ok" ELSE "err"
    /\ UNCHANGED << ctrlc, ctrld, rx_alive, handler_buffer, passed, text_calls,
                    client_failed, rpc, rres, io_failed, is_terminal, batch, consumed,
                    spinner, cursor_hidden, raw_mode, inner_res,
                    cancel_in_stream, mpc, result,
                    wg_dropped, chunk_vars, token_vars >>

\* ------------------------------------------------------------------ Spinner
\* a faulty step: it draws whether or not the spinner was stopped
SpinnerStep_IgnoresStopped(sp, hidden, io_ok) ==
    IF ~io_ok THEN [spinner |-> sp, hidden |-> hidden, ok |-> FALSE]
    ELSE [spinner |-> [sp EXCEPT !.index = IF sp.index < SpinCap
                                             THEN sp.index + 1 ELSE SpinCap],
          hidden |-> IF sp.index = 0 THEN TRUE ELSE hidden,
          ok |-> TRUE]

\* Spinner::step with the writer's outcome io_ok: what it leaves and returns
SpinnerStep(sp, hidden, io_ok) ==
    IF sp.stopped THEN [spinner |-> sp, hidden |-> hidden, ok |-> TRUE]
    ELSE IF ~io_ok THEN [spinner |-> sp, hidden |-> hidden, ok |-> FALSE]
    ELSE [spinner |-> [sp EXCEPT !.index = IF sp.index < SpinCap
                                             THEN sp.index + 1 ELSE SpinCap],
          hidden |-> IF sp.index = 0 THEN TRUE ELSE hidden,
          ok |-> TRUE]

\* Spinner::stop: the flag is set before the writes, which may fail
SpinnerStop(sp, hidden, io_ok) ==
    IF sp.stopped THEN [spinner |-> sp, hidden |-> hidden, ok |-> TRUE]
    ELSE IF ~io_ok
         THEN [spinner |-> [sp EXCEPT !.stopped = TRUE], hidden |-> hidden,
               ok |-> FALSE]
    ELSE [spinner |-> [sp EXCEPT !.stopped = TRUE], hidden |-> FALSE,
          ok |-> TRUE]

\* ------------------------------------------------------------ gather_events
RECURSIVE JoinTexts(_)
\* texts.join(""): the Text payloads of the drained events, in arrival order
JoinTexts(events) ==
    IF events = <<>> THEN <<>>
    ELSE (IF Head(events).type = "Text" THEN Head(events).text ELSE <<>>)
         \o JoinTexts(Tail(events))

HasText(events) == \E i \in DOMAIN events : events[i].type = "Text"
HasDone(events) == \E i \in DOMAIN events : events[i].type = "Done"

\* a faulty gather_events: only the last Text payload is kept
gather_events_LastText(events) ==
    LET idx == { i \in DOMAIN events : events[i].type = "Text" }
        last == CHOOSE i \in idx : \A j \in idx : j <= i
    IN (IF HasText(events) THEN << TextEvent(events[last].text) >> ELSE <<>>)
       \o (IF HasDone(events) THEN << DoneEvent >> ELSE <<>>)

\* a faulty gather_events: Done is pushed before the text
gather_events_DoneFirst(events) ==
    (IF HasDone(events) THEN << DoneEvent >> ELSE <<>>)
    \o (IF HasText(events) THEN << TextEvent(JoinTexts(events)) >> ELSE <<>>)

\* a faulty gather_events: the joined text is pushed twice
gather_events_Twice(events) ==
    (IF HasText(events)
       THEN << TextEvent(JoinTexts(events) \o JoinTexts(events)) >>
       ELSE <<>>)
    \o (IF HasDone(events) THEN << DoneEvent >> ELSE <<>>)

\* gather_events on the events rx.try_iter() yields
gather_events(events) ==
    (IF HasText(events) THEN << TextEvent(JoinTexts(events)) >> ELSE <<>>)
    \o (IF HasDone(events) THEN << DoneEvent >> ELSE <<>>)

\* ----------------------------------------------------------- render thread
RenderUnchanged ==
    UNCHANGED << handler_buffer, passed, text_calls, last_call, done_sent,
                 ppc, pret, client_failed, is_terminal, mpc, result,
                 chunk_vars, token_vars >>

\* what the head of a turn and its poll leave alone
TurnUnchanged ==
    UNCHANGED << handler_buffer, passed, text_calls, last_call, done_sent,
                 ppc, pret, client_failed, is_terminal, mpc, result,
                 draw_vars, token_vars >>

\* run() goes on: its result and its captures are unchanged
KeepRes ==
    /\ rres' = rres /\ io_failed' = io_failed /\ rx_alive' = rx_alive
    /\ raw_mode' = raw_mode /\ inner_res' = inner_res

\* run() returns: the closure was called by value (it moves render_options
\* out), so its captures, rx among them, are dropped with the return
RunReturns(res) == rpc' = "ret" /\ rres' = res /\ rx_alive' = FALSE

\* raw_stream's `return Ok(())` / final `Ok(())`
RunOk ==
    /\ RunReturns("ok") /\ io_failed' = io_failed
    /\ UNCHANGED << raw_mode, inner_res >>

\* a `?` outside markdown_stream_inner returns the error from run()
RunFail ==
    /\ RunReturns("err") /\ io_failed' = TRUE
    /\ UNCHANGED << raw_mode, inner_res >>

\* markdown_stream_inner returns res to markdown_stream, which has
\* disable_raw_mode()? still to do
InnerReturns(res) ==
    /\ rpc' = "unraw" /\ rres' = res /\ rx_alive' = rx_alive
    /\ inner_res' = res /\ raw_mode' = raw_mode

\* `return Ok(())` / the final `Ok(())` of markdown_stream_inner
LoopOk == InnerReturns("ok") /\ io_failed' = io_failed

\* a `?` of markdown_stream_inner returns the I/O error
LoopFail == InnerReturns("err") /\ io_failed' = TRUE

\* the spawned closure up to the loop: stdout().is_terminal(), then either
\* raw_stream, or MarkdownRender::init(..)?, enable_raw_mode()?, and in
\* markdown_stream_inner terminal::size()? and the loop's locals
RenderStart ==
    /\ rpc = "start"
    /\ IF is_terminal
         THEN \E init_ok, size_ok \in BOOLEAN :
                IF ~init_ok THEN RunFail
                ELSE \* enable_raw_mode() has succeeded
                     /\ raw_mode' = TRUE
                     /\ IF ~size_ok
                          THEN /\ rpc' = "unraw" /\ rres' = "err"
                               /\ inner_res' = "err" /\ io_failed' = TRUE
                               /\ rx_alive' = rx_alive
                          ELSE /\ rpc' = "top"
                               /\ UNCHANGED << rres, io_failed, rx_alive,
                                               inner_res >>
         ELSE rpc' = "raw" /\ KeepRes
    /\ RenderUnchanged
    /\ UNCHANGED << ctrlc, ctrld, chan, batch, consumed, spinner,
                    cursor_hidden, cancel_in_stream, wg_dropped >>

\* markdown_stream_inner, the head of 'outer: if abort.aborted() return Ok(())
LoopTop ==
    /\ rpc = "top"
    /\ IF aborted THEN LoopOk ELSE rpc' = "step" /\ KeepRes
    /\ key' = "none"
    /\ TurnUnchanged
    /\ UNCHANGED << ctrlc, ctrld, chan, batch, consumed, spinner,
                    cursor_hidden, cancel_in_stream, wg_dropped >>

\* spinner.step(writer)?
LoopSpinnerStep ==
    /\ rpc = "step"
    /\ \E io_ok \in BOOLEAN :
         LET r == SpinnerStep(spinner, cursor_hidden, io_ok) IN
         /\ spinner' = r.spinner
         /\ cursor_hidden' = r.hidden
         /\ IF r.ok THEN rpc' = "gather" /\ KeepRes ELSE LoopFail
    /\ RenderUnchanged
    /\ UNCHANGED << ctrlc, ctrld, chan, batch, consumed,
                    cancel_in_stream, wg_dropped >>

\* gather_events(rx): the channel is drained into this cycle's batch
LoopGather ==
    /\ rpc = "gather"
    /\ batch' = gather_events(chan)
    /\ chan' = <<>>
    /\ rpc' = IF batch' = <<>> THEN "poll" ELSE "proc"
    /\ RenderUnchanged
    /\ UNCHANGED << ctrlc, ctrld, rx_alive, rres, io_failed, consumed, spinner,
                    cursor_hidden, raw_mode, inner_res,
                    cancel_in_stream, wg_dropped >>

\* one turn of `for reply_event in gather_events(rx)`: spinner.stop(writer)?,
\* then the redraw of a Text (cursor::position()?, queue!, flush()?) or the
\* break 'outer of a Done
LoopEvent ==
    /\ rpc = "proc"
    /\ \E stop_ok, draw_ok \in BOOLEAN :
         LET r == SpinnerStop(spinner, cursor_hidden, stop_ok)
             ev == Head(batch) IN
         /\ spinner' = r.spinner
         /\ cursor_hidden' = r.hidden
         /\ IF ~r.ok
              THEN LoopFail /\ UNCHANGED << batch, consumed >>
            ELSE IF ev.type = "Done"
              THEN rpc' = "final" /\ KeepRes /\ UNCHANGED << batch, consumed >>
            ELSE IF ~draw_ok
              THEN LoopFail /\ UNCHANGED << batch, consumed >>
            ELSE /\ consumed' = consumed \o ev.text
                 /\ batch' = Tail(batch)
                 /\ rpc' = IF batch' = <<>> THEN "poll" ELSE "proc"
                 /\ KeepRes
    /\ RenderUnchanged
    /\ UNCHANGED << ctrlc, ctrld, chan, cancel_in_stream, wg_dropped >>

\* what the poll of a turn finds: no event (or one that is not a key), a
\* key that is neither of the two, Ctrl+C, Ctrl+D
Keys == { "none", "other", "ctrlc", "ctrld" }

\* a faulty poll: every key leaves the loop
LoopPoll_AnyKeyLeaves ==
    /\ rpc = "poll"
    /\ \E io_ok \in BOOLEAN, ev \in Keys :
         IF ~io_ok
           THEN /\ LoopFail
                /\ UNCHANGED << ctrlc, ctrld, cancel_in_stream, key >>
         ELSE /\ key' = ev
              /\ ctrlc' = (ctrlc \/ ev = "ctrlc")
              /\ ctrld' = (ctrld \/ ev = "ctrld")
              /\ cancel_in_stream' =
                   (cancel_in_stream
                    \/ (ev \in {"ctrlc", "ctrld"} /\ ppc = "streaming"))
              /\ rpc' = IF ev # "none" THEN "final" ELSE "top"
              /\ KeepRes
    /\ TurnUnchanged
    /\ UNCHANGED << chan, batch, consumed, spinner, cursor_hidden,
                    wg_dropped >>

\* crossterm::event::poll(timeout)? and event::read()?, then the tick reset
LoopPoll ==
    /\ rpc = "poll"
    /\ \E io_ok \in BOOLEAN, ev \in Keys :
         IF ~io_ok
           THEN /\ LoopFail
                /\ UNCHANGED << ctrlc, ctrld, cancel_in_stream, key >>
         ELSE /\ key' = ev
              /\ ctrlc' = (ctrlc \/ ev = "ctrlc")
              /\ ctrld' = (ctrld \/ ev = "ctrld")
              /\ cancel_in_stream' =
                   (cancel_in_stream
                    \/ (ev \in {"ctrlc", "ctrld"} /\ ppc = "streaming"))
              /\ rpc' = IF ev \in {"ctrlc", "ctrld"} THEN "final" ELSE "top"
              /\ KeepRes
    /\ TurnUnchanged
    /\ UNCHANGED << chan, batch, consumed, spinner, cursor_hidden,
                    wg_dropped >>

\* a faulty exit: what is still queued is rendered after the loop
LoopFinal_Drain ==
    /\ rpc = "final"
    /\ \E io_ok \in BOOLEAN :
         LET r == SpinnerStop(spinner, cursor_hidden, io_ok) IN
         /\ spinner' = r.spinner
         /\ cursor_hidden' = r.hidden
         /\ (IF r.ok THEN LoopOk ELSE LoopFail)
    /\ consumed' = consumed \o JoinTexts(chan)
    /\ chan' = <<>>
    /\ RenderUnchanged
    /\ UNCHANGED << ctrlc, ctrld, batch, cancel_in_stream, wg_dropped >>

\* after the loop: spinner.stop(writer)?; Ok(())
LoopFinal ==
    /\ rpc = "final"
    /\ \E io_ok \in BOOLEAN :
         LET r == SpinnerStop(spinner, cursor_hidden, io_ok) IN
         /\ spinner' = r.spinner
         /\ cursor_hidden' = r.hidden
         /\ (IF r.ok THEN LoopOk ELSE LoopFail)
    /\ RenderUnchanged
    /\ UNCHANGED << ctrlc, ctrld, chan, batch, consumed,
                    cancel_in_stream, wg_dropped >>

\* markdown_stream after the inner loop: disable_raw_mode()?; ret
MarkdownExit ==
    /\ rpc = "unraw"
    /\ \E io_ok \in BOOLEAN :
         IF io_ok
           THEN /\ RunReturns(rres) /\ io_failed' = io_failed
                /\ raw_mode' = FALSE /\ inner_res' = inner_res
           ELSE \* the terminal stays raw, and the `?` returns this error
                \* in place of ret
                RunFail
    /\ RenderUnchanged
    /\ UNCHANGED << ctrlc, ctrld, chan, batch, consumed, spinner,
                    cursor_hidden, cancel_in_stream, wg_dropped >>

\* a faulty raw_stream: what was printed is cleared before each fragment
RawStep_Clears ==
    /\ rpc = "raw"
    /\ IF aborted
         THEN RunOk /\ UNCHANGED << chan, consumed >>
       ELSE IF chan = <<>>
         THEN KeepRes /\ UNCHANGED << rpc, chan, consumed >>
       ELSE /\ chan' = Tail(chan)
            /\ IF Head(chan).type = "Text"
                 THEN consumed' = Head(chan).text
                      /\ rpc' = rpc /\ KeepRes
                 ELSE RunOk /\ consumed' = consumed
    /\ RenderUnchanged
    /\ UNCHANGED << ctrlc, ctrld, batch, spinner, cursor_hidden,
                    cancel_in_stream, wg_dropped >>

\* one turn of raw_stream's loop: the abort check, then rx.try_recv()
RawStep ==
    /\ rpc = "raw"
    /\ IF aborted
         THEN RunOk /\ UNCHANGED << chan, consumed >>
       ELSE IF chan = <<>>
         THEN KeepRes /\ UNCHANGED << rpc, chan, consumed >>
       ELSE /\ chan' = Tail(chan)
            /\ IF Head(chan).type = "Text"
                 THEN consumed' = consumed \o Head(chan).text
                      /\ rpc' = rpc /\ KeepRes
                 ELSE RunOk /\ consumed' = consumed
    /\ RenderUnchanged
    /\ UNCHANGED << ctrlc, ctrld, batch, spinner, cursor_hidden,
                    cancel_in_stream, wg_dropped >>

\* `if let Err(err) = run() { render_error(err, highlight) }`: the thread's
\* last write to the terminal
ThreadReport ==
    /\ rpc = "ret"
    /\ rpc' = "drop"
    /\ RenderUnchanged
    /\ UNCHANGED << ctrlc, ctrld, chan, rx_alive, rres, io_failed, batch, consumed,
                    spinner, cursor_hidden, raw_mode, inner_res,
                    cancel_in_stream, wg_dropped >>

\* the end of the spawned closure: drop(wg_cloned)
ThreadFinish ==
    /\ rpc = "drop"
    /\ rpc' = "exited"
    /\ wg_dropped' = TRUE
    /\ RenderUnchanged
    /\ UNCHANGED << ctrlc, ctrld, chan, rx_alive, rres, io_failed, batch, consumed, spinner,
                    cursor_hidden, raw_mode, inner_res,
                    cancel_in_stream >>

\* ------------------------------------------------------------ render_stream
MainUnchanged ==
    UNCHANGED << ctrlc, ctrld, chan, rx_alive, handler_buffer, passed,
                 text_calls, last_call, done_sent, ppc, pret, client_failed,
                 rres, io_failed, is_terminal, batch, consumed, spinner, cursor_hidden,
                 raw_mode, inner_res,
                    cancel_in_stream, wg_dropped, chunk_vars, token_vars >>

Ok(text) == [ok |-> TRUE, text |-> text]
Err == [ok |-> FALSE, text |-> <<>>]
NoResult == [ok |-> FALSE, text |-> << "none" >>]

\* config.read().get_render_options()? fails: nothing was spawned
MainOptionsFail ==
    /\ mpc = "init"
    /\ mpc' = "returned" /\ result' = Err
    /\ rpc' = rpc
    /\ MainUnchanged

\* spawn(..) and ReplyHandler::new(tx, abort_clone)
MainSpawn ==
    /\ mpc = "init"
    /\ mpc' = "send" /\ rpc' = "start"
    /\ result' = result
    /\ MainUnchanged

\* a faulty barrier: wait() returns at once
wg_wait_NoWait == TRUE

\* wg.wait() returns once the render thread has dropped its clone
wg_wait == wg_dropped

\* a faulty return: an error of the render thread is returned as well
MainReturn_RenderError ==
    /\ mpc = "send" /\ ppc = "returned"
    /\ wg_wait
    /\ mpc' = "returned"
    /\ result' = IF pret = "ok" /\ rres # "err" THEN Ok(handler_buffer)
                  ELSE Err
    /\ rpc' = rpc
    /\ MainUnchanged

\* after send_message_streaming: wg.wait(), get_buffer(), match ret
MainReturn ==
    /\ mpc = "send" /\ ppc = "returned"
    /\ wg_wait
    /\ mpc' = "returned"
    /\ result' = IF pret = "ok" THEN Ok(handler_buffer) ELSE Err
    /\ rpc' = rpc
    /\ MainUnchanged


\* ---------------------------------------------------------- MarkdownRender
NL == "\n"
\* the backquote character
BQ == "bq"
\* the fence token is three backquotes
FenceLen == 3
\* Option::None of code_syntax
NoSyntax == "None"
\* the syntax the Markdown lines are highlighted with (md_syntax)
MdSyntax == "md"

\* The fields of a MarkdownRender that never change: of RenderOptions the
\* theme (present or not) and wrap_code, the wrap width (0: None), and the
\* syntax set, which is sound or holds a grammar the engine fails on
AllOptions ==
    { [theme |-> th, wrap_width |-> w, wrap_code |-> wc, syntax_set |-> ss] :
        th \in BOOLEAN, w \in { 0, WrapCols }, wc \in BOOLEAN,
        ss \in { "Sound", "Faulty" } }

\* the option sets the specifications start from: wrap_code matters only
\* with a width, the syntax set only with a theme
StartOptions ==
    { o \in AllOptions : /\ o.wrap_width = 0 => ~o.wrap_code
                         /\ ~o.theme => o.syntax_set = "Sound" }

\* char::is_alphanumeric on the model's characters
is_alphanumeric(c) == c = "a"

\* a String: a sequence of characters
String == Seq(STRING)

\* chars().take_while(|v| v.is_alphanumeric())
TakeAlnum[t \in String] ==
    IF t = <<>> \/ ~is_alphanumeric(Head(t)) THEN <<>>
    ELSE << Head(t) >> \o TakeAlnum[Tail(t)]

\* a faulty detect_code_block: the fence token is looked for anywhere in the
\* line
detect_code_block_Anywhere(line) ==
    [some |-> \E i \in 1..Len(line) : line[i] = BQ, lang |-> <<>>]

\* a faulty detect_code_block: the tag is all that follows the fence token
detect_code_block_WholeTail(line) ==
    IF Len(line) >= FenceLen /\ \A i \in 1..FenceLen : line[i] = BQ
      THEN [some |-> TRUE, lang |-> SubSeq(line, FenceLen + 1, Len(line))]
      ELSE [some |-> FALSE, lang |-> <<>>]

\* detect_code_block: Some(lang) for a line that starts with the fence token
detect_code_block(line) ==
    IF Len(line) >= FenceLen /\ \A i \in 1..FenceLen : line[i] = BQ
      THEN [some |-> TRUE,
            lang |-> TakeAlnum[SubSeq(line, FenceLen + 1, Len(line))]]
      ELSE [some |-> FALSE, lang |-> <<>>]

\* MarkdownRender::find_syntax: the syntax set knows the language tag "a"
find_syntax(lang) == IF lang = << "a" >> THEN "A" ELSE NoSyntax

\* SyntaxSet::find_syntax_by_first_line: a line that starts with "#" (a
\* shebang) is recognised
find_syntax_by_first_line(line) ==
    IF line # <<>> /\ Head(line) = "#" THEN "Sh" ELSE NoSyntax

\* a faulty check_line: a fence line met inside a block does not close it
check_line_NeverCloses(line_type, syntax, line) ==
    IF detect_code_block(line).some /\ line_type \in { "Normal", "CodeEnd" }
      THEN [line_type |-> "CodeBegin", code_syntax |-> NoSyntax,
            is_code |-> FALSE]
    ELSE IF line_type \in { "Normal", "CodeEnd" }
      THEN [line_type |-> "Normal", code_syntax |-> syntax, is_code |-> FALSE]
    ELSE [line_type |-> "CodeInner", code_syntax |-> syntax, is_code |-> TRUE]

\* a faulty check_line: a closing fence leaves the resolved syntax in place
check_line_KeepsSyntax(line_type, syntax, line) ==
    LET d == detect_code_block(line) IN
    IF d.some
      THEN IF line_type \in { "Normal", "CodeEnd" }
             THEN [line_type |-> "CodeBegin",
                   code_syntax |-> IF d.lang = <<>> THEN NoSyntax
                                   ELSE find_syntax(d.lang),
                   is_code |-> FALSE]
             ELSE [line_type |-> "CodeEnd", code_syntax |-> syntax,
                   is_code |-> FALSE]
    ELSE IF line_type \in { "Normal", "CodeEnd" }
      THEN [line_type |-> "Normal", code_syntax |-> syntax, is_code |-> FALSE]
    ELSE [line_type |-> "CodeInner",
          code_syntax |-> IF line_type = "CodeBegin" /\ syntax = NoSyntax
                            /\ find_syntax_by_first_line(line) # NoSyntax
                          THEN find_syntax_by_first_line(line) ELSE syntax,
          is_code |-> TRUE]

\* a faulty check_line: the syntax is sniffed from every line of a block
\* that has none yet
check_line_SniffsInner(line_type, syntax, line) ==
    LET d == detect_code_block(line) IN
    IF d.some
      THEN IF line_type \in { "Normal", "CodeEnd" }
             THEN [line_type |-> "CodeBegin",
                   code_syntax |-> IF d.lang = <<>> THEN NoSyntax
                                   ELSE find_syntax(d.lang),
                   is_code |-> FALSE]
             ELSE [line_type |-> "CodeEnd", code_syntax |-> NoSyntax,
                   is_code |-> FALSE]
    ELSE IF line_type \in { "Normal", "CodeEnd" }
      THEN [line_type |-> "Normal", code_syntax |-> syntax, is_code |-> FALSE]
    ELSE [line_type |-> "CodeInner",
          code_syntax |-> IF syntax = NoSyntax
                            /\ find_syntax_by_first_line(line) # NoSyntax
                          THEN find_syntax_by_first_line(line) ELSE syntax,
          is_code |-> TRUE]

\* MarkdownRender::check_line
check_line(line_type, syntax, line) ==
    LET d == detect_code_block(line) IN
    IF d.some
      THEN IF line_type \in { "Normal", "CodeEnd" }
             THEN [line_type |-> "CodeBegin",
                   code_syntax |-> IF d.lang = <<>> THEN NoSyntax
                                   ELSE find_syntax(d.lang),
                   is_code |-> FALSE]
             ELSE [line_type |-> "CodeEnd", code_syntax |-> NoSyntax,
                   is_code |-> FALSE]
    ELSE IF line_type = "Normal"
      THEN [line_type |-> "Normal", code_syntax |-> syntax, is_code |-> FALSE]
    ELSE IF line_type = "CodeEnd"
      THEN [line_type |-> "Normal", code_syntax |-> syntax, is_code |-> FALSE]
    ELSE IF line_type = "CodeBegin"
      THEN [line_type |-> "CodeInner",
            code_syntax |-> IF syntax = NoSyntax
                              /\ find_syntax_by_first_line(line) # NoSyntax
                            THEN find_syntax_by_first_line(line) ELSE syntax,
            is_code |-> TRUE]
    ELSE [line_type |-> "CodeInner", code_syntax |-> syntax, is_code |-> TRUE]

\* a style escape: it occupies no column
Style(tag) == "[" \o tag \o "]"
IsStyle(c) == c \in { Style(MdSyntax), Style("A"), Style("Sh"), Style("code") }
\* textwrap::core::display_width of one character
CharWidth(c) == IF IsStyle(c) THEN 0 ELSE 1

\* FirstFit on a text without spaces: one word, broken where it would pass
\* the width
WrapFrom[text \in String, col \in Nat, width \in Nat] ==
    IF text = <<>> THEN <<>>
    ELSE IF CharWidth(Head(text)) > 0 /\ col + CharWidth(Head(text)) > width
      THEN << NL, Head(text) >>
           \o WrapFrom[Tail(text), CharWidth(Head(text)), width]
      ELSE << Head(text) >>
           \o WrapFrom[Tail(text), col + CharWidth(Head(text)), width]

\* wrap(text, width); the model's texts have no spaces, hence no indent
wrap(text, width) == WrapFrom[text, 0, width]

\* a faulty wrap_line: code lines are wrapped whatever wrap_code says
wrap_line_All(opts, line, is_code) ==
    IF opts.wrap_width # 0 THEN wrap(line, opts.wrap_width) ELSE line

\* MarkdownRender::wrap_line
wrap_line(opts, line, is_code) ==
    IF opts.wrap_width # 0
      THEN IF is_code /\ ~opts.wrap_code THEN line
           ELSE wrap(line, opts.wrap_width)
      ELSE line

\* as_terminal_escaped of the ranges of a line: nothing for an empty line
as_terminal_escaped(syntax, line) ==
    IF line = <<>> THEN <<>> ELSE << Style(syntax) >> \o line

\* HighlightLines::highlight_line returns Ok: with the faulty syntax set the
\* engine fails on every line that holds a "#"
highlighter_ok(opts, line) ==
    ~(opts.syntax_set = "Faulty" /\ \E i \in 1..Len(line) : line[i] = "#")

\* a faulty highlight_line: when the engine fails the line is lost
highlight_line_FailEmpty(opts, line, syntax, is_code) ==
    wrap_line(opts,
              IF opts.theme
                THEN IF highlighter_ok(opts, line)
                       THEN as_terminal_escaped(syntax, line) ELSE <<>>
                ELSE line,
              is_code)

\* MarkdownRender::highlight_line (the model's lines have no leading
\* whitespace)
highlight_line(opts, line, syntax, is_code) ==
    wrap_line(opts,
              IF opts.theme /\ highlighter_ok(opts, line)
                THEN as_terminal_escaped(syntax, line) ELSE line,
              is_code)

\* a faulty highlight_code_line: the code colour is applied without a theme
highlight_code_line_AlwaysColor(opts, line, syntax) ==
    IF syntax # NoSyntax THEN highlight_line(opts, line, syntax, TRUE)
    ELSE wrap_line(opts, << Style("code") >> \o line, TRUE)

\* MarkdownRender::highlight_code_line; code_color is Some exactly when a
\* theme is
highlight_code_line(opts, line, syntax) ==
    IF syntax # NoSyntax THEN highlight_line(opts, line, syntax, TRUE)
    ELSE wrap_line(opts,
                   IF opts.theme THEN << Style("code") >> \o line ELSE line,
                   TRUE)

\* the output both render_line and render_line_mut compute
LineOutput(opts, line_type, syntax, line) ==
    LET c == check_line(line_type, syntax, line) IN
    IF c.is_code THEN highlight_code_line(opts, line, c.code_syntax)
    ELSE highlight_line(opts, line, MdSyntax, FALSE)

\* MarkdownRender::render_line: the state is read, not written
render_line(opts, line_type, syntax, line) ==
    LineOutput(opts, line_type, syntax, line)

\* a faulty render_line: the classification of the line is committed, as
\* render_line_mut does
render_line_state_Commits(line_type, syntax, line) ==
    [line_type |-> check_line(line_type, syntax, line).line_type,
     code_syntax |-> check_line(line_type, syntax, line).code_syntax]

\* the renderer's state after MarkdownRender::render_line(&self, line): the
\* result of check_line is used for the output and dropped
render_line_state(line_type, syntax, line) ==
    [line_type |-> line_type, code_syntax |-> syntax]

\* a faulty render_line_mut: the classification is not committed
render_line_mut_NoCommit(opts, line_type, syntax, line) ==
    [out |-> LineOutput(opts, line_type, syntax, line),
     line_type |-> line_type, code_syntax |-> syntax]

\* MarkdownRender::render_line_mut: the output and the state it commits
render_line_mut(opts, line_type, syntax, line) ==
    LET c == check_line(line_type, syntax, line) IN
    [out |-> LineOutput(opts, line_type, syntax, line),
     line_type |-> c.line_type, code_syntax |-> c.code_syntax]

\* the index of the first newline of t at or after i, 0 when there is none
NLFrom[t \in String, i \in Nat] ==
    IF i > Len(t) THEN 0 ELSE IF t[i] = NL THEN i ELSE NLFrom[t, i + 1]

\* the index of the last newline of t at or before i, 0 when there is none
NLBefore[t \in String, i \in Nat] ==
    IF i = 0 THEN 0 ELSE IF t[i] = NL THEN i ELSE NLBefore[t, i - 1]

\* the index of the first newline of a text, 0 when it has none
FirstNL(t) == NLFrom[t, 1]

\* the index of the last newline of a text, 0 when it has none
LastNL(t) == NLBefore[t, Len(t)]

contains_newline(t) == FirstNL(t) # 0

\* the output joined so far and the state committed so far
RenderState ==
    [out : String, line_type : STRING, code_syntax : STRING, first : BOOLEAN]

\* .join("\n") of one more rendered line r onto acc
JoinLine(acc, r) ==
    [out |-> IF acc.first THEN r.out ELSE acc.out \o << NL >> \o r.out,
     line_type |-> r.line_type, code_syntax |-> r.code_syntax,
     first |-> FALSE]

\* the lines of text.split('\n') through render_line_mut, one after the
\* other
RenderLines[opts \in AllOptions, acc \in RenderState, text \in String] ==
    IF FirstNL(text) = 0
      THEN JoinLine(acc, render_line_mut(opts, acc.line_type, acc.code_syntax,
                                         text))
      ELSE RenderLines[opts,
                       JoinLine(acc,
                                render_line_mut(opts, acc.line_type,
                                                acc.code_syntax,
                                                SubSeq(text, 1, FirstNL(text) - 1))),
                       SubSeq(text, FirstNL(text) + 1, Len(text))]

\* MarkdownRender::render: .map(render_line_mut) over the lines, .join("\n");
\* the state after the last line comes with the output
render(opts, line_type, syntax, text) ==
    RenderLines[opts,
                [out |-> <<>>, line_type |-> line_type, code_syntax |-> syntax,
                 first |-> TRUE],
                text]

\* ------------------------------------------------------------ redraw engine
\* a faulty split_line_tail: split_once instead of rsplit_once
split_line_tail_First(text) ==
    LET i == FirstNL(text) IN
    IF i = 0 THEN [head |-> <<>>, tail |-> text]
    ELSE [head |-> SubSeq(text, 1, i - 1),
          tail |-> SubSeq(text, i + 1, Len(text))]

\* split_line_tail: rsplit_once('\n')
split_line_tail(text) ==
    LET i == LastNL(text) IN
    IF i = 0 THEN [head |-> <<>>, tail |-> text]
    ELSE [head |-> SubSeq(text, 1, i - 1),
          tail |-> SubSeq(text, i + 1, Len(text))]

\* print_block: every line of text.split('\n'), each followed by "\n"
print_block[text \in String] ==
    IF FirstNL(text) = 0 THEN text \o << NL >>
    ELSE SubSeq(text, 1, FirstNL(text) - 1) \o << NL >>
         \o print_block[SubSeq(text, FirstNL(text) + 1, Len(text))]

\* what the second half of a redraw prints for the rendered buffer
PrintBuffer[output \in String] ==
    IF contains_newline(output)
      THEN print_block[split_line_tail(output).head]
           \o split_line_tail(output).tail
      ELSE output

\* u16 values are below 2^16
U16 == 65536

\* u16 addition and subtraction as the release build computes them
AddU16(a, b) == (a + b) % U16
SubU16(a, b) == (a + U16 - b) % U16

\* textwrap::core::display_width: style escapes take no column
display_width(text) == Cardinality({ k \in 1..Len(text) : ~IsStyle(text[k]) })

\* a faulty need_rows: the width is not raised to one
need_rows_NoFloor(text, cols) ==
    SubU16(AddU16(display_width(text) % U16, cols), 1) \div cols

\* need_rows
need_rows(text, cols) ==
    LET w == display_width(text)
        buffer_width == (IF w > 1 THEN w ELSE 1) % U16
    IN SubU16(AddU16(buffer_width, cols), 1) \div cols

\* what print_block returns: the number of lines of text.split('\n')
print_block_num(text) ==
    1 + Cardinality({ k \in 1..Len(text) : text[k] = NL })

\* buffer_rows after the rendered buffer is printed
BufferRows(output, cols) ==
    IF contains_newline(output)
      THEN AddU16(print_block_num(split_line_tail(output).head),
                  need_rows(split_line_tail(output).tail, cols))
      ELSE need_rows(output, cols)

\* no reposition is pending: the loop is between two Text arms
NoMove == [seen |-> FALSE, row |-> 0, quirk |-> FALSE, rows |-> 1,
           scrolled |-> FALSE, scroll |-> 0, move_row |-> 0]

\* a faulty reposition: the quirk decrement without its row > 0 test
reposition_NoRowTest(col, row, buf, cols, rows) ==
    LET quirk == col = 0 /\ display_width(buf) = cols
        at == IF quirk THEN SubU16(row, 1) ELSE row
    IN IF AddU16(at, 1) >= rows
         THEN [seen |-> TRUE, row |-> row, quirk |-> quirk, rows |-> rows,
               scrolled |-> FALSE, scroll |-> 0,
               move_row |-> SubU16(AddU16(at, 1), rows)]
         ELSE [seen |-> TRUE, row |-> row, quirk |-> quirk, rows |-> rows,
               scrolled |-> TRUE, scroll |-> SubU16(SubU16(rows, at), 1),
               move_row |-> 0]

\* a faulty reposition: the scroll is one row too long
reposition_ScrollOneMore(col, row, buf, cols, rows) ==
    LET quirk == col = 0 /\ row > 0 /\ display_width(buf) = cols
        at == IF quirk THEN SubU16(row, 1) ELSE row
    IN IF AddU16(at, 1) >= rows
         THEN [seen |-> TRUE, row |-> row, quirk |-> quirk, rows |-> rows,
               scrolled |-> FALSE, scroll |-> 0,
               move_row |-> SubU16(AddU16(at, 1), rows)]
         ELSE [seen |-> TRUE, row |-> row, quirk |-> quirk, rows |-> rows,
               scrolled |-> TRUE, scroll |-> SubU16(rows, at),
               move_row |-> 0]

\* the start of the Text arm: cursor::position() has answered (col, row);
\* the kitty correction, then MoveTo or ScrollUp and MoveTo(0, 0)
reposition(col, row, buf, cols, rows) ==
    LET quirk == col = 0 /\ row > 0 /\ display_width(buf) = cols
        at == IF quirk THEN SubU16(row, 1) ELSE row
    IN IF AddU16(at, 1) >= rows
         THEN [seen |-> TRUE, row |-> row, quirk |-> quirk, rows |-> rows,
               scrolled |-> FALSE, scroll |-> 0,
               move_row |-> SubU16(AddU16(at, 1), rows)]
         ELSE [seen |-> TRUE, row |-> row, quirk |-> quirk, rows |-> rows,
               scrolled |-> TRUE, scroll |-> SubU16(SubU16(rows, at), 1),
               move_row |-> 0]

\* ------------------------------------------------- the tick of the loop
\* tick_rate = Duration::from_millis(50), in milliseconds
TickRate == 50

\* no timeout was computed yet
NoPoll == [made |-> FALSE, elapsed |-> 0, timeout |-> 0]

\* a faulty timeout: zero once the tick is overdue
poll_timeout_FloorZero(tick_rate, el) ==
    IF el <= tick_rate THEN tick_rate - el ELSE 0

\* tick_rate.checked_sub(last_tick.elapsed())
\*     .unwrap_or_else(|| tick_rate.div(2)):
\* checked_sub is None when the elapsed time is more than tick_rate
poll_timeout(tick_rate, el) ==
    IF el <= tick_rate THEN tick_rate - el ELSE tick_rate \div 2

\* the part of a turn before the poll (abort check, spinner step, the
\* gathered events and their redraws) takes some time
TickWork ==
    /\ tick_pc = "work"
    /\ \E d \in 0..MaxLag : elapsed' = elapsed + d
    /\ tick_pc' = "poll"
    /\ UNCHANGED << polled, options, prev_line_type, code_syntax, buffer,
                    full, rest, printed, shown, many, columns, term_rows,
                    buffer_rows, placed, done, committed, lines_left,
                    line_log, joined, key, stream_vars, token_vars >>

\* the poll and the tick reset after it: the timeout is computed,
\* crossterm::event::poll returns when an event is there or the timeout has
\* passed, and last_tick is set anew once tick_rate has elapsed
TickPoll ==
    /\ tick_pc = "poll"
    /\ \E timeout \in { poll_timeout(TickRate, elapsed) } :
       \E waited \in 0..timeout :
          /\ polled' = [made |-> TRUE, elapsed |-> elapsed,
                        timeout |-> timeout]
          /\ elapsed' = IF elapsed + waited >= TickRate THEN 0
                         ELSE elapsed + waited
    /\ tick_pc' = "work"
    /\ UNCHANGED << options, prev_line_type, code_syntax, buffer,
                    full, rest, printed, shown, many, columns, term_rows,
                    buffer_rows, placed, done, committed, lines_left,
                    line_log, joined, key, stream_vars, token_vars >>

\* one more head handed to render: the lines handed over so far, as one
\* text
Commit(c, head) ==
    [any |-> TRUE,
     text |-> IF c.any THEN c.text \o << NL >> \o head ELSE head]

\* a faulty first half of the Text arm: a batch with a newline is split
\* without the buffer before it
TakeText_DropsBuffer(text) ==
    IF contains_newline(text)
      THEN LET t == split_line_tail(text)
               r == render(options, prev_line_type, code_syntax, t.head)
           IN [commit |-> TRUE, head |-> t.head, out |-> r.out,
               line_type |-> r.line_type, code_syntax |-> r.code_syntax,
               buffer |-> t.tail]
      ELSE [commit |-> FALSE, head |-> <<>>, out |-> <<>>,
            line_type |-> prev_line_type, code_syntax |-> code_syntax,
            buffer |-> buffer \o text]

\* the first half of the Text arm after the cursor is placed and the screen
\* below it cleared: a batch with a newline commits the lines before its
\* last newline through render, any other batch is appended to the buffer;
\* the result is what was committed, the renderer's state and the buffer
TakeText(text) ==
    IF contains_newline(text)
      THEN LET t == split_line_tail(buffer \o text)
               r == render(options, prev_line_type, code_syntax, t.head)
           IN [commit |-> TRUE, head |-> t.head, out |-> r.out,
               line_type |-> r.line_type, code_syntax |-> r.code_syntax,
               buffer |-> t.tail]
      ELSE [commit |-> FALSE, head |-> <<>>, out |-> <<>>,
            line_type |-> prev_line_type, code_syntax |-> code_syntax,
            buffer |-> buffer \o text]

\* a faulty second half of the Text arm: the rows of the buffer are counted
\* only when the buffer was started anew by a commit
ShowBuffer_StaleRows(t) ==
    /\ \E after \in { render_line_state(t.line_type, t.code_syntax,
                                         t.buffer) } :
          /\ prev_line_type' = after.line_type
          /\ code_syntax' = after.code_syntax
    /\ \E output \in { render_line(options, t.line_type, t.code_syntax,
                                    t.buffer) } :
          /\ shown' = PrintBuffer[output]
          /\ buffer_rows' = IF t.commit THEN BufferRows(output, columns)
                              ELSE buffer_rows

\* the second half of the Text arm: the new buffer is rendered by
\* render_line, printed, and its rows are counted
ShowBuffer(t) ==
    /\ \E after \in { render_line_state(t.line_type, t.code_syntax,
                                         t.buffer) } :
          /\ prev_line_type' = after.line_type
          /\ code_syntax' = after.code_syntax
    /\ \E output \in { render_line(options, t.line_type, t.code_syntax,
                                    t.buffer) } :
          /\ shown' = PrintBuffer[output]
          /\ buffer_rows' = BufferRows(output, columns)

\* the Text arm of the redraw after the cursor is placed and the screen
\* below it cleared: text is one batch
DrawText(text) ==
    \E t \in { TakeText(text) } :
       /\ buffer' = t.buffer
       /\ printed' = IF t.commit THEN printed \o print_block[t.out]
                       ELSE printed
       /\ committed' = IF t.commit THEN Commit(committed, t.head)
                         ELSE committed
       /\ ShowBuffer(t)

\* gather_events hands the loop the next batch: any non-empty run of the
\* text that is still to come
Deliver(n) ==
    /\ placed.seen
    /\ n \in 1..Len(rest)
    /\ DrawText(SubSeq(rest, 1, n))
    /\ placed' = NoMove
    /\ rest' = SubSeq(rest, n + 1, Len(rest))
    /\ many' = (many \/ rest' # <<>> \/ Len(rest) < Len(full))
    /\ UNCHANGED << options, full, columns, term_rows, done, lines_left,
                    line_log, joined, tick_vars, key, stream_vars, token_vars >>

\* the Text arm up to its Clear: cursor::position()? answers a cell of the
\* terminal, the cursor is placed where the displayed buffer starts
DrawReposition ==
    /\ rest # <<>> /\ ~placed.seen
    /\ \E col \in 0..(columns - 1), row \in 0..(term_rows - 1) :
         placed' = reposition(col, row, buffer, columns, buffer_rows)
    /\ UNCHANGED << options, prev_line_type, code_syntax, buffer, full, rest,
                    printed, shown, many, columns, term_rows, buffer_rows,
                    done, committed, lines_left, line_log, joined,
                    tick_vars, key, stream_vars, token_vars >>

\* a Done arm with a final flush: the pending buffer is committed through
\* render and print_block
DeliverDone_Flush ==
    /\ rest = <<>> /\ ~done
    /\ done' = TRUE
    /\ \E r \in { render(options, prev_line_type, code_syntax, buffer) } :
         /\ printed' = printed \o print_block[r.out]
         /\ prev_line_type' = r.line_type
         /\ code_syntax' = r.code_syntax
    /\ buffer' = <<>> /\ shown' = <<>>
    /\ UNCHANGED << options, full, rest, many, columns, term_rows,
                    buffer_rows, placed, committed, lines_left, line_log,
                    joined, tick_vars, key, stream_vars, token_vars >>

\* the Done arm, after the last text: break 'outer, nothing is drawn
DeliverDone ==
    /\ rest = <<>> /\ ~done
    /\ done' = TRUE
    /\ UNCHANGED << options, prev_line_type, code_syntax, buffer, full, rest,
                    printed, shown, many, columns, term_rows, buffer_rows,
                    placed, committed, lines_left, line_log, joined,
                    tick_vars, key, stream_vars, token_vars >>

Pieces == { << BQ, BQ, BQ >>, << "a" >>, << "#" >>, << NL >> }

RECURSIVE Flatten(_)
Flatten(ps) == IF ps = <<>> THEN <<>> ELSE Head(ps) \o Flatten(Tail(ps))

Texts == { Flatten(ps) : ps \in UNION { [1..n -> Pieces] : n \in 0..MaxPieces } }

ChunkTexts ==
    { Flatten(ps) : ps \in UNION { [1..n -> Pieces] : n \in 0..MaxChunkPieces } }

DrawTexts ==
    { Flatten(ps) : ps \in UNION { [1..n -> Pieces] : n \in 0..MaxDrawPieces } }

\* the locals of markdown_stream_inner before its loop, on a terminal of
\* cols columns and rows rows
LoopLocals(cols, rows) ==
    /\ buffer = <<>> /\ buffer_rows = 1
    /\ columns = cols /\ term_rows = rows
    /\ placed = NoMove /\ done = FALSE
    /\ committed = [any |-> FALSE, text |-> <<>>]
    /\ tick_pc = "work" /\ elapsed = 0 /\ polled = NoPoll
    /\ key = "none"

\* MarkdownRender::init and the locals of markdown_stream_inner
ChunkInit ==
    /\ options \in { o \in StartOptions : o.syntax_set = "Sound" }
    /\ prev_line_type = "Normal" /\ code_syntax = NoSyntax
    /\ LoopLocals(TermCols, 1)
    /\ full \in ChunkTexts /\ rest = full
    /\ printed = <<>> /\ shown = <<>> /\ many = FALSE
    /\ lines_left = <<>> /\ line_log = <<>> /\ joined = <<>>

\* SpecChunk does not run: its variables rest
ChunkIdle ==
    /\ options = [theme |-> FALSE, wrap_width |-> 0, wrap_code |-> FALSE,
                  syntax_set |-> "Sound"]
    /\ prev_line_type = "Normal" /\ code_syntax = NoSyntax
    /\ LoopLocals(TermCols, 1) /\ full = <<>> /\ rest = <<>>
    /\ printed = <<>> /\ shown = <<>> /\ many = FALSE
    /\ lines_left = <<>> /\ line_log = <<>> /\ joined = <<>>

\* ------------------------------------------- render, one line after another
\* text.split('\n')
Split[text \in String] ==
    IF FirstNL(text) = 0 THEN << text >>
    ELSE << SubSeq(text, 1, FirstNL(text) - 1) >>
         \o Split[SubSeq(text, FirstNL(text) + 1, Len(text))]

\* one step of the .map(|line| self.render_line_mut(line)) of render: the
\* next line is classified and highlighted, the state is committed, and the
\* output is joined onto the lines before it
RenderLineMut ==
    /\ lines_left # <<>>
    /\ \E r \in { render_line_mut(options, prev_line_type, code_syntax,
                                  Head(lines_left)) } :
         /\ prev_line_type' = r.line_type
         /\ code_syntax' = r.code_syntax
         /\ line_log' =
              Append(line_log,
                     [before |-> prev_line_type,
                      line |-> Head(lines_left),
                      after |-> r.line_type,
                      is_code |-> check_line(prev_line_type, code_syntax,
                                             Head(lines_left)).is_code,
                      syntax |-> r.code_syntax,
                      out |-> r.out])
         /\ joined' = IF line_log = <<>> THEN r.out
                       ELSE joined \o << NL >> \o r.out
    /\ lines_left' = Tail(lines_left)
    /\ UNCHANGED << options, buffer, full, rest, printed, shown, many,
                    columns, term_rows, buffer_rows, placed, done, committed,
                    tick_vars, key, stream_vars, token_vars >>

\* MarkdownRender::init, and render called with one text
LineInit ==
    /\ options \in StartOptions
    /\ prev_line_type = "Normal" /\ code_syntax = NoSyntax
    /\ full \in Texts /\ lines_left = Split[full]
    /\ line_log = <<>> /\ joined = <<>>
    /\ LoopLocals(TermCols, 1) /\ rest = <<>>
    /\ printed = <<>> /\ shown = <<>> /\ many = FALSE

\* ---------------------------------------------------------- specification
\* no style has been blended
BlendIdle ==
    /\ foreground = Color(0, 0, 0, U8Max) /\ background = Color(0, 0, 0, U8Max)
    /\ blended = NotBlended

StreamStart ==
    /\ ctrlc = FALSE /\ ctrld = FALSE
    /\ tpc = [th \in Threads |-> "idle"]
    /\ tok_log = <<>>
    /\ tok_raced = [th \in Threads |-> FALSE]
    /\ repl_pc = "top" /\ already_ctrlc = FALSE /\ submitted = "none"
    /\ lines_read = 0 /\ asked = <<>>
    /\ presses = [prompt |-> FALSE, stream |-> FALSE]
    /\ chan = <<>> /\ rx_alive = TRUE
    /\ handler_buffer = <<>> /\ passed = <<>> /\ text_calls = 0
    /\ last_call = [op |-> "none", empty |-> FALSE, sent |-> FALSE,
                    was_aborted |-> FALSE, rx_dropped |-> FALSE, ok |-> TRUE]
    /\ done_sent = FALSE
    /\ ppc = "idle" /\ pret = "none" /\ client_failed = FALSE
    /\ rpc = "none" /\ rres = "none" /\ io_failed = FALSE
    /\ is_terminal \in BOOLEAN
    /\ batch = <<>> /\ consumed = <<>>
    /\ spinner = [index |-> 0, stopped |-> FALSE]
    /\ cursor_hidden = FALSE
    /\ raw_mode = FALSE /\ inner_res = "none"
    /\ cancel_in_stream = FALSE
    /\ mpc = "init" /\ result = NoResult /\ wg_dropped = FALSE

StreamInit == StreamStart /\ BlendIdle

Producer ==
    \/ ProdRuntimeFail
    \/ ProdBegin
    \/ \E fragment \in Fragments : ProdText(fragment)
    \/ ProdTextFail
    \/ ProdInnerOk
    \/ ProdClientFail
    \/ ProdWatchAbort

RenderThread ==
    \/ RenderStart
    \/ LoopTop
    \/ LoopSpinnerStep
    \/ LoopGather
    \/ LoopEvent
    \/ LoopPoll
    \/ LoopFinal
    \/ MarkdownExit
    \/ RawStep
    \/ ThreadReport
    \/ ThreadFinish

Main ==
    \/ MainOptionsFail
    \/ MainSpawn
    \/ MainReturn

Init == StreamInit /\ ChunkIdle

Next == Producer \/ RenderThread \/ Main

Spec == Init /\ [][Next]_vars

\* what the caller's thread does in send_message_streaming without waiting
\* for the provider: entering block_on, the select! arm of an inner future
\* that has ended, and the timer-driven watch_abort
ProducerOwnSteps ==
    ProdRuntimeFail \/ ProdBegin \/ ProdTextFail \/ ProdWatchAbort

\* The render thread and the caller's thread are OS threads that keep
\* running, and the tokio timer polls watch_abort every 100 ms; nothing
\* obliges the provider's stream to deliver a fragment, to end or to fail.
FairSpec ==
    Spec /\ WF_stream_vars(RenderThread) /\ WF_stream_vars(ProducerOwnSteps)

InitChunk == ChunkInit /\ StreamInit /\ is_terminal

NextChunk ==
    \/ DrawReposition
    \/ \E n \in 1..(MaxPieces * FenceLen) : Deliver(n)
    \/ DeliverDone

SpecChunk == InitChunk /\ [][NextChunk]_vars

\* MarkdownRender::init and the locals of markdown_stream_inner, on
\* terminals of MaxRows rows, of every width up to TermCols, and shorter
\* texts
DrawInit ==
    /\ options \in { o \in StartOptions : o.syntax_set = "Sound" }
    /\ prev_line_type = "Normal" /\ code_syntax = NoSyntax
    /\ \E cols \in 1..TermCols : LoopLocals(cols, MaxRows)
    /\ full \in DrawTexts /\ rest = full
    /\ printed = <<>> /\ shown = <<>> /\ many = FALSE
    /\ lines_left = <<>> /\ line_log = <<>> /\ joined = <<>>

InitDraw == DrawInit /\ StreamInit /\ is_terminal

SpecDraw == InitDraw /\ [][NextChunk]_vars

InitLine == LineInit /\ StreamInit /\ is_terminal

NextLine == RenderLineMut

SpecLine == InitLine /\ [][NextLine]_vars

NextToken ==
    \E th \in Threads :
       \/ set_ctrlc(th)
       \/ set_ctrld(th)
       \/ reset_ctrlc(th)
       \/ reset_ctrld(th)
       \/ CallAbortedCtrlc(th)
       \/ CallAbortedCtrld(th)
       \/ CallAborted(th)
       \/ CallAbortedSecond(th)

SpecToken == Init /\ [][NextToken]_vars

\* the REPL loop with the responses it starts
NextRepl ==
    \/ ReplTop
    \/ ReplReadLine
    \/ ReplHandle
    \/ ReplStreamKey
    \/ ReplStreamReturn
    \/ ReplExit

SpecRepl == Init /\ [][NextRepl]_vars

\* one style of a highlighted range: any foreground with any alpha over any
\* background, channels drawn from Shades
BlendInit ==
    /\ foreground \in { Color(r, g, b, a) :
                           r \in Shades, g \in Shades, b \in Shades,
                           a \in 0..U8Max }
    /\ background \in { Color(r, g, b, U8Max) :
                           r \in Shades, g \in Shades, b \in Shades }
    /\ blended = NotBlended

InitBlend == StreamStart /\ ChunkIdle /\ BlendInit /\ is_terminal

NextBlend == BlendFg

SpecBlend == InitBlend /\ [][NextBlend]_vars

\* the clock of the render loop alone
NextTick == TickWork \/ TickPoll

SpecTick == Init /\ [][NextTick]_vars

\* ------------------------------------------------------------------ claims
\* the render loop has been left (its result, if any, is fixed)
LoopLeft == rpc \in { "final", "unraw", "ret", "drop", "exited" }

\* the render loop has returned
LoopReturned == rpc \in { "unraw", "ret", "drop", "exited" }

RECURSIVE TextOf(_)
\* the Text payloads of a queue of events, in queue order
TextOf(events) ==
    IF events = <<>> THEN <<>>
    ELSE LET e == events[Len(events)]
             front == SubSeq(events, 1, Len(events) - 1)
         IN TextOf(front) \o (IF e.type = "Text" THEN e.text ELSE <<>>)

\* C1: once a flag of the token is set, the render loop is at its abort
\* check or has left the loop, and no Text event is processed from then on,
\* whatever is still queued in the channel.
C1_CancelStopsRendering ==
    [][ aborted' => /\ consumed' = consumed
                    /\ (rpc' = "top" \/ LoopLeft') ]_vars

C1_Witness ==
    /\ aborted /\ rpc = "exited"
    /\ HasText(chan)
    /\ consumed # handler_buffer

\* C2: get_buffer() is the concatenation, in call order, of every fragment
\* given to text(), whether or not the enqueue succeeded.
C2_BufferIsConcatenation == handler_buffer = passed

C2_Witness ==
    /\ last_call.op = "text" /\ ~last_call.empty /\ ~last_call.sent
    /\ Len(handler_buffer) >= 2

\* C3: without cancellation and without a terminal error, once Done was
\* enqueued after the last Text, render_stream returns only when the render
\* thread has rendered every Text in send order; what it rendered is the
\* Accumulated Output that is returned.
C3_AllTextRendered ==
    (mpc = "returned" /\ done_sent /\ ~aborted /\ rres # "err")
        => /\ consumed = handler_buffer
           /\ result.ok => result.text = consumed

C3_Witness ==
    /\ mpc = "returned" /\ done_sent /\ ~aborted /\ rres = "ok"
    /\ is_terminal
    /\ result = Ok(<< "a", "b" >>)
    /\ consumed = << "a", "b" >>

\* C4: a draw cycle drains the whole queue into one batch: at most one Text
\* event carrying the queued payloads concatenated in arrival order, then
\* Done if one was queued; Done is acted on only when no text of the batch
\* is still unrendered.
C4_BatchInOrder ==
    /\ [][ (rpc = "gather" /\ rpc' # "gather")
             => /\ chan' = <<>>
                /\ TextOf(batch') = TextOf(chan)
                /\ Cardinality({ i \in DOMAIN batch' : batch'[i].type = "Text" }) <= 1
                /\ HasDone(batch') = HasDone(chan) ]_vars
    /\ [][ (rpc = "proc" /\ rpc' = "final") => ~HasText(batch) ]_vars

C4_Witness ==
    /\ rpc = "final"
    /\ batch = << DoneEvent >>
    /\ consumed = << "a", "b" >>
    /\ chan = <<>>

\* C5: however the text is cut into batches, the committed renderings
\* followed by the last displayed rendering of the partial buffer are
\* render() of the whole text by a fresh MarkdownRender.
C5_ChunkIndependence ==
    rest = <<>>
        => printed \o shown = render(options, "Normal", NoSyntax, full).out

C5_Witness ==
    /\ rest = <<>> /\ many
    /\ options.theme /\ options.wrap_width # 0
    /\ prev_line_type = "CodeInner"
    /\ buffer = << BQ, BQ, BQ >>
    /\ printed # <<>>

\* C6: render_stream has returned only if the render thread (when one was
\* spawned) has finished, its error report included.
C6_ReturnAfterThreadExit ==
    mpc = "returned" => rpc \in { "none", "exited" }

C6_Witness ==
    mpc = "returned" /\ rpc = "exited" /\ rres = "err"

\* C7: text() with a non-empty fragment and done() fail exactly when the
\* enqueue failed while the token was not aborted.
C7_SendFailurePropagation ==
    (last_call.op \in { "text", "done" } /\ ~last_call.empty)
        => (~last_call.ok <=> (~last_call.sent /\ ~last_call.was_aborted))

C7_Witness ==
    /\ last_call.op = "text" /\ ~last_call.empty
    /\ ~last_call.sent /\ last_call.was_aborted /\ last_call.ok

C9_CancelUnblocksBoth ==
    /\ aborted ~> (rpc = "exited")
    /\ aborted ~> (ppc = "returned")

C9_Witness ==
    /\ aborted /\ rpc = "exited" /\ ppc = "returned"
    /\ last_call.op = "done" /\ ~last_call.sent /\ pret = "ok"
    /\ text_calls = 0

\* C10 as stated: whenever the render loop has returned, the spinner is
\* stopped if it ever drew, and the cursor is visible.
C10_SpinnerStoppedOnExit ==
    (is_terminal /\ LoopReturned)
        => /\ ~cursor_hidden
           /\ spinner.index > 0 => spinner.stopped

\* the render loop of markdown_stream is running
LoopRuns == rpc \in { "top", "step", "gather", "proc", "poll", "final", "unraw" }

\* C11 as stated: raw mode is on only while the render loop runs, and once
\* markdown_stream has returned raw mode is off and what it returned is
\* what the inner loop returned.
C11_RawModeReleased ==
    /\ raw_mode => LoopRuns
    /\ (rpc \in { "ret", "drop", "exited" } /\ inner_res # "none")
          => rres = inner_res

\* the line starts with the fence token (three backquotes)
StartsWithFence(line) ==
    /\ Len(line) >= 3
    /\ line[1] = BQ /\ line[2] = BQ /\ line[3] = BQ

\* C12: every line classified moves the state as the table says: a fence
\* line takes Normal and CodeEnd to CodeBegin and takes CodeBegin and
\* CodeInner to CodeEnd; any other line keeps Normal, takes CodeEnd to Normal
\* and takes CodeBegin and CodeInner to CodeInner; is_code is true exactly
\* in that last case.
C12_TransitionTable ==
    \A i \in 1..Len(line_log) :
       LET e == line_log[i] IN
       /\ (StartsWithFence(e.line) /\ e.before \in { "Normal", "CodeEnd" })
             => (e.after = "CodeBegin" /\ ~e.is_code)
       /\ (StartsWithFence(e.line) /\ e.before \in { "CodeBegin", "CodeInner" })
             => (e.after = "CodeEnd" /\ ~e.is_code)
       /\ (~StartsWithFence(e.line) /\ e.before \in { "Normal", "CodeEnd" })
             => (e.after = "Normal" /\ ~e.is_code)
       /\ (~StartsWithFence(e.line) /\ e.before \in { "CodeBegin", "CodeInner" })
             => (e.after = "CodeInner" /\ e.is_code)

\* a fence line met in CodeBegin and a fence line met in CodeEnd: a block
\* closed at once and the next block opened on the line after it
C12_Witness ==
    \A b \in { "Normal", "CodeBegin", "CodeEnd" } :
       \E i \in 1..Len(line_log) :
          line_log[i].before = b /\ StartsWithFence(line_log[i].line)

\* line i of the text opens a block that line j closes: both are fence
\* lines, no line between them is, and the fence lines before i pair up
FencedBlock(i, j) ==
    /\ i < j
    /\ StartsWithFence(line_log[i].line)
    /\ StartsWithFence(line_log[j].line)
    /\ \A k \in (i + 1)..(j - 1) : ~StartsWithFence(line_log[k].line)
    /\ Cardinality({ k \in 1..(i - 1) : StartsWithFence(line_log[k].line) }) % 2 = 0

\* the rendered line carries the Markdown highlighting, not the code one
\* (a line the engine fails on carries none)
MarkdownStyled(e) ==
    /\ ~e.is_code
    /\ (options.theme /\ highlighter_ok(options, e.line) /\ e.line # <<>>)
          => Head(e.out) = Style(MdSyntax)

\* the rendered line carries the code highlighting, not the Markdown one
CodeStyled(e) ==
    /\ e.is_code
    /\ (options.theme /\ highlighter_ok(options, e.line) /\ e.line # <<>>)
          => Head(e.out) \in { Style("code"), Style("A"), Style("Sh") }

\* C13: in a text rendered from the Normal state, the opening fence of a
\* well-formed block is classified CodeBegin, its closing fence CodeEnd,
\* every line strictly between them CodeInner with is_code true, and neither
\* fence line is highlighted as code.
C13_FencedBlockLines ==
    \A i, j \in 1..Len(line_log) :
       FencedBlock(i, j) =>
          /\ line_log[i].after = "CodeBegin" /\ MarkdownStyled(line_log[i])
          /\ line_log[j].after = "CodeEnd" /\ MarkdownStyled(line_log[j])
          /\ \A k \in (i + 1)..(j - 1) :
                line_log[k].after = "CodeInner" /\ CodeStyled(line_log[k])

\* a themed text whose block has a line inside, rendered through its
\* closing fence
C13_Witness ==
    /\ options.theme
    /\ \E i, j \in 1..Len(line_log) :
          /\ FencedBlock(i, j) /\ j > i + 1
          /\ line_log[i + 1].line # <<>>

\* no physical line of the text starts with the fence token
NoFenceLine(text) ==
    \A i \in 1..Len(text) :
       (i = 1 \/ text[i - 1] = NL)
          => ~StartsWithFence(SubSeq(text, i, Len(text)))

\* C14: while the fragments of a text without any fence line are drawn, in
\* whatever batches they arrive, the classifier state committed by the
\* redraw engine is Normal after every batch.
C14_NoFenceStaysNormal ==
    NoFenceLine(full) => prev_line_type = "Normal"

\* a text of several lines with backquotes in the middle of a line, drawn
\* to its end in more than one batch
C14_Witness ==
    /\ NoFenceLine(full) /\ many /\ rest = <<>>
    /\ \E i \in 1..Len(full) : full[i] = BQ
    /\ \E i, j \in 1..Len(printed) : i < j /\ printed[i] = NL /\ printed[j] = NL

\* thread th returns from reset in this step
ResetReturns(th) == tpc[th] = "reset_ctrld" /\ tpc'[th] = "idle"

\* C15: a flag that is set stays set through every call of aborted,
\* aborted_ctrlc, aborted_ctrld, set_ctrlc and set_ctrld by any thread: the
\* only steps that clear a flag are the stores of reset, and a reset that
\* returns has cleared both flags (ctrlc can be set again only by a set_ctrlc
\* that ran between its two stores).
C15_OnlyResetClears ==
    [][ /\ (ctrlc /\ ~ctrlc')
             => \E th \in Threads :
                   tpc[th] = "idle" /\ tpc'[th] = "reset_ctrld"
        /\ (ctrld /\ ~ctrld') => \E th \in Threads : ResetReturns(th)
        /\ \A th \in Threads :
              ResetReturns(th) => (~ctrld' /\ (ctrlc' => tok_raced[th])) ]_vars

\* a flag was set, a query saw it, and then a reset cleared the token
C15_Witness ==
    /\ Len(tok_log) = 3
    /\ tok_log[1].op = "set_ctrld"
    /\ tok_log[2].op = "aborted" /\ tok_log[2].value
    /\ tok_log[3].op = "reset"
    /\ ~ctrlc /\ ~ctrld

\* a call of the method op returns in this step
Returns(op) ==
    /\ Len(tok_log') = Len(tok_log) + 1
    /\ tok_log'[Len(tok_log')].op = op

\* C16: the two flags are independent: set_ctrlc sets ctrlc and leaves ctrld
\* as it is, set_ctrld sets ctrld and leaves ctrlc as it is; in every state
\* aborted is the disjunction of aborted_ctrlc and aborted_ctrld, and a call
\* of aborted answers with the disjunction of its two loads (ctrlc first,
\* ctrld only when ctrlc was clear).
C16_FlagsIndependent ==
    [][ /\ Returns("set_ctrlc") => (ctrlc' /\ ctrld' = ctrld)
        /\ Returns("set_ctrld") => (ctrld' /\ ctrlc' = ctrlc)
        /\ aborted = (aborted_ctrlc \/ aborted_ctrld)
        /\ aborted' = (aborted_ctrlc' \/ aborted_ctrld')
        /\ \A th \in Threads :
              (Returns("aborted") /\ tok_log'[Len(tok_log')].thread = th)
                 => tok_log'[Len(tok_log')].value
                      = IF tpc[th] = "idle" THEN ctrlc ELSE ctrld ]_vars

\* only ctrlc was set: aborted_ctrld answers false and aborted answers true
C16_Witness ==
    /\ Len(tok_log) = 3
    /\ tok_log[1].op = "set_ctrlc"
    /\ tok_log[2].op = "aborted_ctrld" /\ ~tok_log[2].value
    /\ tok_log[3].op = "aborted" /\ tok_log[3].value
    /\ ctrlc /\ ~ctrld

\* C17: a call of text with an empty fragment returns Ok, leaves the
\* handler's buffer as it was and puts no event on the channel, whatever the
\* state of the receiver and of the token.
C17_EmptyTextNoOp ==
    [][ (text_calls' = text_calls + 1 /\ last_call'.empty)
          => /\ last_call'.ok
             /\ handler_buffer' = handler_buffer
             /\ chan' = chan
             /\ done_sent' = done_sent ]_vars

\* text was called with an empty fragment after the receiver was dropped,
\* the token not aborted, and after a fragment had been buffered
C17_Witness ==
    /\ last_call.op = "text" /\ last_call.empty
    /\ last_call.rx_dropped /\ ~last_call.was_aborted
    /\ last_call.ok
    /\ handler_buffer # <<>>

\* C18: when stdout is not a terminal, what the render thread has printed
\* followed by the Text events still queued is every fragment sent so far,
\* in the order sent; the thread returns Ok at the first Done, with every
\* fragment printed; and neither the spinner, the cursor nor raw mode is
\* touched.
C18_RawStreamVerbatim ==
    ~is_terminal =>
       /\ consumed \o TextOf(chan) = handler_buffer
       /\ rpc \in { "none", "start", "raw", "ret", "drop", "exited" }
       /\ rpc \in { "ret", "drop", "exited" }
             => (rres = "ok" /\ done_sent /\ consumed = handler_buffer)
       /\ spinner = [index |-> 0, stopped |-> FALSE]
       /\ ~cursor_hidden /\ ~raw_mode /\ inner_res = "none"
       /\ batch = <<>>

\* raw_stream has printed several fragments and returned at Done
C18_Witness ==
    /\ ~is_terminal /\ rpc = "exited" /\ rres = "ok"
    /\ Len(consumed) >= 2 /\ consumed[1] # consumed[2]
    /\ consumed = handler_buffer

\* the characters of a rendered line that came from the text: neither a
\* line break nor a style escape
Content(out) == SelectSeq(out, LAMBDA c : c # NL /\ ~IsStyle(c))

\* the columns taken by out[i..j]
Columns(out, i, j) == Cardinality({ k \in i..j : ~IsStyle(out[k]) })

\* out is broken into rows of at most width columns, every row but the last
\* one full
WrappedTo(out, width) ==
    \A i, j \in 1..Len(out) :
       ( /\ i <= j
         /\ (i = 1 \/ out[i - 1] = NL)
         /\ (j = Len(out) \/ out[j + 1] = NL)
         /\ \A k \in i..j : out[k] # NL )
       => /\ Columns(out, i, j) <= width
          /\ j < Len(out) => Columns(out, i, j) = width

\* C19: with a wrap width, every line that is not code (prose and fence
\* lines alike) is wrapped to the width, and a code line is wrapped only
\* when wrap_code is set and is otherwise left in one piece however wide it
\* is; with no wrap width no line is broken.  The characters of the line are
\* all kept, in order.
C19_WrapPolicy ==
    \A i \in 1..Len(line_log) :
       LET e == line_log[i] IN
       /\ Content(e.out) = e.line
       /\ IF options.wrap_width # 0 /\ (~e.is_code \/ options.wrap_code)
            THEN WrappedTo(e.out, options.wrap_width)
            ELSE \A k \in 1..Len(e.out) : e.out[k] # NL

\* wrapping is on without wrap_code: a fence line wider than the width was
\* broken and a code line wider than the width was not
C19_Witness ==
    /\ options.wrap_width # 0 /\ ~options.wrap_code
    /\ \E i, j \in 1..Len(line_log) :
          /\ ~line_log[i].is_code
          /\ Len(line_log[i].line) > options.wrap_width
          /\ \E k \in 1..Len(line_log[i].out) : line_log[i].out[k] = NL
          /\ line_log[j].is_code
          /\ Len(line_log[j].line) > options.wrap_width
          /\ Content(line_log[j].out) = line_log[j].line
          /\ \A k \in 1..Len(line_log[j].out) : line_log[j].out[k] # NL

\* C20: with no theme and no wrap width render gives back the text it was
\* given, fenced code blocks included: the lines joined so far are the
\* beginning of the text, and once the last line is mapped the output is
\* the text.
C20_NoThemeIdentity ==
    (~options.theme /\ options.wrap_width = 0) =>
       /\ line_log # <<>>
             => (Len(joined) <= Len(full)
                 /\ joined = SubSeq(full, 1, Len(joined)))
       /\ lines_left = <<>> => joined = full
       /\ render(options, "Normal", NoSyntax, full).out = full

\* a text with a line of code inside a fenced block, rendered to its end
\* with the default options
C20_Witness ==
    /\ ~options.theme /\ options.wrap_width = 0
    /\ lines_left = <<>> /\ Len(line_log) >= 3
    /\ \E i \in 1..Len(line_log) :
          line_log[i].is_code /\ line_log[i].line # <<>>
    /\ joined = full

\* the engine was run on the line of this render_line_mut call (a code line
\* without a syntax is coloured without it) and failed
EngineFailed(e) ==
    /\ options.theme /\ ~highlighter_ok(options, e.line)
    /\ e.is_code => e.syntax # NoSyntax

\* the same MarkdownRender with a syntax set the engine does not fail on
SoundOptions == [options EXCEPT !.syntax_set = "Sound"]

\* C21: a line the syntax engine fails on is emitted with its own text and
\* no highlighting, wrapped by the rule of every other line; the classifier
\* state after it is the one a sound engine leaves; and render still
\* returns a text, with every character of its input.
C21_HighlightFailurePassthrough ==
    /\ \A i \in 1..Len(line_log) :
          LET e == line_log[i]
              sound == render_line_mut(SoundOptions, e.before,
                                       IF i = 1 THEN NoSyntax
                                       ELSE line_log[i - 1].syntax,
                                       e.line)
          IN EngineFailed(e) =>
               /\ e.out = wrap_line(options, e.line, e.is_code)
               /\ \A k \in 1..Len(e.out) : ~IsStyle(e.out[k])
               /\ e.after = sound.line_type
               /\ e.syntax = sound.code_syntax
    /\ lines_left = <<>> => Content(joined) = Content(full)

\* the engine failed on a line of prose and on a line of code, and lines
\* after them were rendered with their highlighting
C21_Witness ==
    /\ lines_left = <<>>
    /\ \E i, j, k \in 1..Len(line_log) :
          /\ EngineFailed(line_log[i]) /\ ~line_log[i].is_code
          /\ EngineFailed(line_log[j]) /\ line_log[j].is_code
          /\ i < k /\ ~EngineFailed(line_log[k])
          /\ line_log[k].out # <<>> /\ IsStyle(Head(line_log[k].out))

\* the part of the text before its last newline (nothing when it has none)
\* and the part after it
BeforeLastNL(text) ==
    IF LastNL(text) = 0 THEN <<>> ELSE SubSeq(text, 1, LastNL(text) - 1)
AfterLastNL(text) == SubSeq(text, LastNL(text) + 1, Len(text))

\* C22 as stated: once Done is taken the pending buffer has been committed
\* by a final flush (it is empty, or its line is among the printed blocks).
C22_FinalFlushCommits ==
    done => \/ buffer = <<>>
            \/ printed = print_block[render(options, "Normal", NoSyntax,
                                             full).out]

\* C22, amended: when Done is taken, and after it, the lines before the last
\* newline of the text are the committed ones, the rest of the text is the
\* partial buffer, displayed as the last redraw left it and not committed;
\* what is committed and what is displayed are together the rendering of the
\* whole text.
C22_DoneLeavesBufferDisplayed ==
    (rest = <<>> /\ ~placed.seen) =>
       /\ buffer = AfterLastNL(full)
       /\ printed = IF contains_newline(full)
                      THEN print_block[render(options, "Normal", NoSyntax,
                                              BeforeLastNL(full)).out]
                      ELSE <<>>
       /\ shown = PrintBuffer[render_line(options, prev_line_type,
                                          code_syntax, buffer)]
       /\ printed \o shown = render(options, "Normal", NoSyntax, full).out

\* two letters, a newline and one more character, delivered in more than one
\* batch and then Done: one line is committed, the last character is the
\* buffer
C22_Witness ==
    /\ done /\ many
    /\ full = << "a", "a", NL, "#" >>
    /\ ~options.theme /\ options.wrap_width = 0
    /\ printed = << "a", "a", NL >>
    /\ buffer = << "#" >> /\ shown = << "#" >>

\* the text taken from the channel so far
Consumed == SubSeq(full, 1, Len(full) - Len(rest))

\* the batch the Text arm of this step draws
Batch == SubSeq(rest, 1, Len(rest) - Len(rest'))

\* nothing is lost or duplicated: the committed lines, a newline after them
\* when there are any, and the partial buffer are the text consumed
NothingLost ==
    committed.text \o (IF committed.any THEN << NL >> ELSE <<>>) \o buffer
       = Consumed

\* C23: after every text batch the committed lines joined by newlines, a
\* newline when a line was committed, and the partial buffer are together
\* the text consumed so far; a batch without a newline commits nothing and
\* is appended to the buffer.
C23_NothingLostOrDuplicated ==
    [][ /\ NothingLost /\ NothingLost'
        /\ (rest' # rest /\ ~contains_newline(Batch))
              => /\ committed' = committed /\ printed' = printed
                 /\ prev_line_type' = prev_line_type
                 /\ code_syntax' = code_syntax
                 /\ buffer' = buffer \o Batch ]_vars

\* lines were committed by two Text arms, a batch without a newline came
\* after them, and a buffer is pending
C23_Witness ==
    /\ rest = <<>> /\ many
    /\ committed.any /\ contains_newline(committed.text)
    /\ Len(buffer) >= 2
    /\ Len(printed) > Len(committed.text) + 1

\* the rendered form of the partial buffer, as the second half of the Text
\* arm computes it
RenderedBuffer == render_line(options, prev_line_type, code_syntax, buffer)

\* C24: the partial buffer never holds a newline, and buffer_rows is the row
\* count of the buffer as it stands: it was recomputed by the draw step that
\* last changed the buffer, so the reposition that reads it next reads the
\* count of the buffer on the screen.
C24_BufferRowsCurrent ==
    /\ ~contains_newline(buffer)
    /\ buffer_rows = BufferRows(RenderedBuffer, columns)
    /\ placed.seen => placed.rows = buffer_rows

\* a reposition has read the row count of a buffer that was left by a
\* commit in a text of several batches and takes more than one row
C24_Witness ==
    /\ placed.seen /\ committed.any /\ many
    /\ Len(buffer) >= 2 /\ buffer_rows >= 2

\* the renderer's state when the lines committed so far are all it was
\* given
StateOfCommitted ==
    IF committed.any
      THEN LET r == render(options, "Normal", NoSyntax, committed.text)
           IN << r.line_type, r.code_syntax >>
      ELSE << "Normal", NoSyntax >>

\* the line type the partial buffer would get if it were committed now
PeekedType == check_line(prev_line_type, code_syntax, buffer).line_type

Ceil(a, b) == (a + b - 1) \div b

\* a Text arm has drawn
Drawn == Len(rest) < Len(full)

\* the width w, counted as least when it is less
AtLeast(least, w) == IF w < least THEN least ELSE w

\* the rows of the rendered buffer when a text of width w takes
\* Ceil(AtLeast(least, w), columns) rows and every line before the last
\* newline one row
RowsBy(least) ==
    IF contains_newline(RenderedBuffer)
      THEN Len(Split[BeforeLastNL(RenderedBuffer)])
           + Ceil(AtLeast(least, display_width(AfterLastNL(RenderedBuffer))),
                  columns)
      ELSE Ceil(AtLeast(least, display_width(RenderedBuffer)), columns)

CorrectedRow == IF placed.quirk THEN placed.row - 1 ELSE placed.row

\* C27: before each redraw, with row the corrected cursor row: when
\* row + 1 >= buffer_rows the cursor is moved to column 0 of row
\* row + 1 - buffer_rows and nothing is scrolled; otherwise the screen is
\* scrolled up by exactly buffer_rows - row - 1 rows and the cursor is
\* moved to (0, 0).
C27_RepositionForOverwrite ==
    placed.seen =>
       IF CorrectedRow + 1 >= buffer_rows
         THEN /\ ~placed.scrolled
              /\ placed.move_row = CorrectedRow + 1 - buffer_rows
         ELSE /\ placed.scrolled
              /\ placed.scroll = buffer_rows - CorrectedRow - 1
              /\ placed.move_row = 0

\* in a text of several batches a buffer taller than the rows above the
\* cursor was repositioned by a scroll
C27_Witness ==
    /\ placed.seen /\ placed.scrolled /\ placed.scroll >= 1
    /\ many /\ buffer # <<>>
    /\ buffer_rows > placed.row + 1

\* a row or row count of the 16-bit cursor arithmetic
IsU16(v) == v \in 0..(U16 - 1)

\* C28: the 16-bit cursor arithmetic of a redraw never passes zero: the
\* kitty correction is applied only to a row above zero, the move target
\* row + 1 - buffer_rows is taken only when it is not negative, and the
\* scroll amount buffer_rows - row - 1 only when it is at least one; each
\* result is the exact difference.
C28_NoUnderflow ==
    placed.seen =>
       /\ placed.quirk => /\ placed.row >= 1
                           /\ display_width(buffer) = columns
       /\ IsU16(CorrectedRow) /\ IsU16(CorrectedRow + 1)
       /\ ~placed.scrolled =>
             /\ CorrectedRow + 1 - placed.rows >= 0
             /\ placed.move_row = CorrectedRow + 1 - placed.rows
       /\ placed.scrolled =>
             /\ placed.rows - CorrectedRow - 1 >= 1
             /\ placed.scroll = placed.rows - CorrectedRow - 1

\* the kitty correction was applied: the cursor stood at column 0 below
\* the top row after a buffer that fills the columns, and the move went to
\* the row above
C28_Witness ==
    /\ placed.seen /\ placed.quirk /\ ~placed.scrolled
    /\ placed.row >= 1 /\ placed.move_row = placed.row - 1
    /\ display_width(buffer) = columns

\* C29 as stated: the timeout is tick_rate minus the elapsed time, floored
\* at zero: zero whenever the elapsed time is at least tick_rate, never
\* negative and never more than tick_rate.
C29_TimeoutFlooredAtZero ==
    polled.made =>
       /\ polled.elapsed < TickRate
             => polled.timeout = TickRate - polled.elapsed
       /\ polled.elapsed >= TickRate => polled.timeout = 0
       /\ polled.timeout \in 0..TickRate

\* C29: the timeout is tick_rate minus the elapsed time while that is not
\* negative, so zero when exactly tick_rate has elapsed, and half of
\* tick_rate once more than tick_rate has elapsed; it is never negative and
\* never more than tick_rate.
C29_TimeoutOrHalfTick ==
    polled.made =>
       /\ polled.elapsed <= TickRate
             => polled.elapsed + polled.timeout = TickRate
       /\ polled.elapsed > TickRate
             => /\ 2 * polled.timeout <= TickRate
                /\ TickRate < 2 * polled.timeout + 2
       /\ polled.timeout \in 0..TickRate

\* a poll was made with the tick overdue, and the turn after it has begun
C29_Witness ==
    /\ polled.made /\ polled.elapsed > TickRate /\ polled.timeout > 0
    /\ tick_pc = "work"

\* the poll of a turn has run without an I/O error
PollStep == rpc = "poll" /\ rpc' # "poll" /\ ~io_failed'

\* the poll leaves the text of the loop alone
PollKeepsText ==
    UNCHANGED << buffer, buffer_rows, consumed, batch, chan >>

\* C30: in the poll of a turn Ctrl+C sets the ctrlc flag, leaves ctrld as it
\* was and leaves the loop; Ctrl+D sets the ctrld flag, leaves ctrlc as it
\* was and leaves the loop; any other key and any turn without a key change
\* neither flag nor the buffer, and the loop goes on with its next turn.
C30_PollKeys ==
    [][ PollStep =>
          /\ key' \in Keys
          /\ PollKeepsText
          /\ key' = "ctrlc"
                => ctrlc' /\ ctrld' = ctrld /\ rpc' = "final"
          /\ key' = "ctrld"
                => ctrld' /\ ctrlc' = ctrlc /\ rpc' = "final"
          /\ key' \in { "none", "other" }
                => ctrlc' = ctrlc /\ ctrld' = ctrld /\ rpc' = "top" ]_vars

\* a key that is neither Ctrl+C nor Ctrl+D was read after text had been
\* drawn, and the loop is at the head of its next turn with no flag set
C30_Witness ==
    /\ key = "other" /\ rpc = "top"
    /\ consumed # <<>> /\ ~ctrlc /\ ~ctrld

\* send_message_streaming has returned and render_stream is at wg.wait()
AtBarrier == mpc = "send" /\ ppc = "returned"

\* C31 as stated: on every path through send_message_streaming, when the
\* caller reaches wg.wait() a Done event has been enqueued or the token is
\* aborted (or the render thread has already returned), so the render
\* thread exits and the wait completes.
C31_DoneOrAbortedAtBarrier ==
    AtBarrier => (done_sent \/ aborted \/ ~rx_alive)

\* render_stream has returned from its match on ret (a thread was spawned)
ReturnedFromMatch == mpc = "returned" /\ rpc # "none"

\* C32: the value render_stream returns is decided by what
\* send_message_streaming returned: Ok with the handler's buffer exactly
\* when that call returned Ok, the error otherwise; an error of the render
\* thread does not change it.
C32_ProducerDecidesResult ==
    ReturnedFromMatch =>
       /\ result.ok <=> pret = "ok"
       /\ result.ok => result = Ok(handler_buffer)
       /\ ~result.ok => result = Err /\ pret = "err"

\* the render thread ended with an error after text was handed over, and
\* render_stream returned Ok with the whole buffer
C32_Witness ==
    /\ ReturnedFromMatch /\ rres = "err" /\ io_failed
    /\ pret = "ok" /\ result = Ok(handler_buffer)
    /\ handler_buffer # <<>>

\* p is a prefix of t
IsPrefix(p, t) == Len(p) <= Len(t) /\ SubSeq(t, 1, Len(p)) = p

\* C33: in every interleaving of the producer and the render thread the
\* text the render thread has consumed is a prefix of the handler's buffer,
\* and so of the text render_stream returns: the returned text may go on
\* beyond what was rendered, it never disagrees with it.
C33_RenderedIsPrefix ==
    /\ IsPrefix(consumed, handler_buffer)
    /\ (mpc = "returned" /\ result.ok) => IsPrefix(consumed, result.text)

\* after a cancel key render_stream returned more text than was rendered
C33_Witness ==
    /\ mpc = "returned" /\ result.ok /\ aborted
    /\ consumed # <<>> /\ Len(consumed) < Len(result.text)

\* the code syntax the renderer held before the k-th line of the log
SyntaxBefore(k) == IF k = 1 THEN NoSyntax ELSE line_log[k - 1].syntax

\* C34: the resolved code syntax exists only for an open fenced block:
\* whenever the line type is Normal or CodeEnd no code syntax is held, after
\* every line and in the state the renderer is in, and a closing fence
\* clears the one its block had.
C34_SyntaxOnlyInBlock ==
    /\ prev_line_type \in { "Normal", "CodeEnd" } => code_syntax = NoSyntax
    /\ \A k \in 1..Len(line_log) :
          line_log[k].after \in { "Normal", "CodeEnd" }
             => line_log[k].syntax = NoSyntax

\* the closing fence of a block that had a resolved syntax was rendered
C34_Witness ==
    /\ prev_line_type = "CodeEnd" /\ code_syntax = NoSyntax
    /\ Len(line_log) >= 2
    /\ SyntaxBefore(Len(line_log)) # NoSyntax

\* the k-th line of the log is a line of an open block that is not a fence
\* and came with no syntax resolved
Unresolved(k) ==
    /\ line_log[k].before \in { "CodeBegin", "CodeInner" }
    /\ ~StartsWithFence(line_log[k].line)
    /\ SyntaxBefore(k) = NoSyntax

\* C35 as stated: on every line of an open block that is not a fence and
\* comes with no syntax resolved, first line or later, the syntax is
\* sniffed from the line.
C35_SniffOnEveryBlockLine ==
    \A k \in 1..Len(line_log) :
       Unresolved(k)
          => line_log[k].syntax = find_syntax_by_first_line(line_log[k].line)

\* C35: the syntax is sniffed only from the first line after the opening
\* fence, when that fence resolved none; a later line of the block never
\* changes the syntax, so a block whose first line is not recognised has no
\* syntax on any of its lines.
C35_SniffOnFirstLineOnly ==
    \A k \in 1..Len(line_log) :
       /\ (Unresolved(k) /\ line_log[k].before = "CodeBegin")
             => /\ line_log[k].syntax
                     = find_syntax_by_first_line(line_log[k].line)
                /\ line_log[k].after = "CodeInner" /\ line_log[k].is_code
       /\ (line_log[k].before = "CodeInner"
             /\ ~StartsWithFence(line_log[k].line))
             => /\ line_log[k].syntax = SyntaxBefore(k)
                /\ line_log[k].after = "CodeInner" /\ line_log[k].is_code

\* a block whose first line was not recognised met a later line the
\* sniffing recognises, and still has no syntax
C35_Witness ==
    \E k \in 1..Len(line_log) :
       /\ Unresolved(k) /\ line_log[k].before = "CodeInner"
       /\ find_syntax_by_first_line(line_log[k].line) # NoSyntax
       /\ line_log[k].syntax = NoSyntax

\* ------------------------------------------------------------------ C36
\* the spinner's stop() took effect in this step: the flag was set by it
FirstStop == ~spinner.stopped /\ spinner'.stopped

\* C36: stop() is idempotent and final. Once the spinner is stopped no later
\* step() or stop() changes its frame index or its flag, hides or shows the
\* cursor; the clear-and-show happens only in the step that sets the flag
\* (the cursor leaves the hidden state there and nowhere else, and is shown
\* by every first stop() whose writes went through); and text is rendered
\* by the markdown loop only with the spinner stopped, so no frame is drawn
\* after the first text (raw_stream has no spinner).
C36_StopIsFinal ==
    [][ /\ spinner.stopped =>
             spinner' = spinner /\ cursor_hidden' = cursor_hidden
        /\ (cursor_hidden /\ ~cursor_hidden') => FirstStop
        /\ (FirstStop /\ ~io_failed') => ~cursor_hidden'
        /\ (is_terminal' /\ consumed' # <<>>) => spinner'.stopped ]_vars

\* a frame was drawn, the first text stopped the spinner and was rendered,
\* and a further turn has called step() on the stopped spinner
C36_Witness ==
    /\ is_terminal /\ rpc = "gather" /\ spinner.stopped /\ spinner.index >= 1
    /\ consumed # <<>> /\ ~cursor_hidden /\ ~io_failed

\* ------------------------------------------------------------------ C37
\* C37: every render_stream call issued from the REPL starts with neither
\* flag of the shared token set: reset() runs before each submitted line is
\* handled, whatever was pressed during earlier responses or at earlier prompts.
C37_ResponseStartsClean ==
    /\ \A k \in 1..Len(asked) : ~asked[k].ctrlc /\ ~asked[k].ctrld
    /\ repl_pc = "handle" => (~ctrlc /\ ~ctrld /\ ~already_ctrlc)

\* a response started clean after Ctrl+C had been pressed both at an earlier
\* prompt and during an earlier response
C37_Witness ==
    /\ repl_pc = "stream" /\ Len(asked) = 2
    /\ presses.prompt /\ presses.stream
    /\ ~ctrlc /\ ~ctrld

\* ------------------------------------------------------------------ C38
\* what follows the fence token on a line
AfterFence(l) == SubSeq(l, FenceLen + 1, Len(l))

\* tag is the maximal run of alphanumeric characters at the start of t
MaximalAlnumRun(tag, t) ==
    /\ IsPrefix(tag, t)
    /\ \A i \in 1..Len(tag) : is_alphanumeric(tag[i])
    /\ Len(tag) < Len(t) => ~is_alphanumeric(t[Len(tag) + 1])

\* C38: a line is a fence marker exactly when it begins with the fence token
\* (whatever follows it); the language tag is the maximal run of alphanumeric
\* characters right after the token, empty for a bare fence; and the
\* classifier treats exactly those lines as fences, opening a block with the
\* syntax found for that tag.
C38_FenceMarkerAndTag ==
    \A k \in 1..Len(line_log) :
       LET l == line_log[k].line
           d == detect_code_block(l) IN
       /\ d.some <=> StartsWithFence(l)
       /\ d.some => MaximalAlnumRun(d.lang, AfterFence(l))
       /\ l = << BQ, BQ, BQ >> => d.some /\ d.lang = <<>>
       /\ line_log[k].after \in { "CodeBegin", "CodeEnd" } <=> StartsWithFence(l)
       /\ (StartsWithFence(l) /\ line_log[k].after = "CodeBegin")
            => \E tag \in { [i \in 1..n |-> "a"] : n \in 0..Len(l) } :
                  /\ MaximalAlnumRun(tag, AfterFence(l))
                  /\ line_log[k].syntax = find_syntax(tag)

\* a fence whose tag is followed by other text opened a block with the
\* tag's syntax, and a bare fence closed it
C38_Witness ==
    /\ Len(line_log) = 2
    /\ line_log[1].line = << BQ, BQ, BQ, "a", "#" >>
    /\ line_log[1].after = "CodeBegin" /\ line_log[1].syntax = "A"
    /\ line_log[2].line = << BQ, BQ, BQ >>
    /\ line_log[2].after = "CodeEnd"

\* ------------------------------------------------------------------ C39
Min(x, y) == IF x <= y THEN x ELSE y
Max(x, y) == IF x <= y THEN y ELSE x

\* the weighted mean of the claim, in unbounded integers
Mix(f, a, b) == (f * a + b * (255 - a)) \div 255

\* the channel computed with this alpha stays between the two values it
\* mixes, for every pair of 8-bit values
BetweenForAll(a) ==
    \A f, b \in 0..U8Max :
       LET m == blend_channel(f, a, b) IN
       m = Mix(f, a, b) /\ Min(f, b) <= m /\ m <= Max(f, b)

\* C39: an opaque foreground (alpha 255) is returned unchanged; otherwise
\* every channel of the result is (fg * alpha + bg * (255 - alpha)) / 255
\* with alpha 255, that value lies between min(fg, bg) and max(fg, bg), so
\* it is at most 255 and the saturating fallback is never taken. The last
\* conjunct covers all 8-bit channel values: it is evaluated once for each
\* alpha, in the state where black was blended over black.
C39_BlendBetween ==
    blended.some =>
       IF foreground.a = 255 THEN blended.color = foreground
       ELSE /\ blended.color.a = 255
            /\ ~blended.saturated
            /\ \A ch \in { "r", "g", "b" } :
                  LET f == foreground[ch]
                      b == background[ch]
                      m == Mix(f, foreground.a, b) IN
                  /\ blended.color[ch] = m
                  /\ Min(f, b) <= m /\ m <= Max(f, b) /\ m <= 255
            /\ (/\ foreground = Color(0, 0, 0, foreground.a)
                /\ background = Color(0, 0, 0, U8Max))
                 => BetweenForAll(foreground.a)

\* a half-transparent foreground was blended, and the division rounded a
\* channel down to a value strictly between the two
C39_Witness ==
    /\ blended.some /\ foreground.a \notin { 0, 255 }
    /\ \E ch \in { "r", "g", "b" } :
          /\ Min(foreground[ch], background[ch]) < blended.color[ch]
          /\ blended.color[ch] < Max(foreground[ch], background[ch])
          /\ (foreground[ch] * foreground.a
              + background[ch] * (255 - foreground.a)) % 255 # 0

====
